---------------------------- MODULE Spec2Model ----------------------------
(***************************************************************************)
(* Mean-field Hamiltonian, wavefunction cache and SCF / ODA solvers of the *)
(* meanfield package (src/hamiltonian.py, src/wfn.py, src/observable.py,   *)
(* src/linear.py, src/scf.py).                                             *)
(*                                                                         *)
(* Numbers.  Every float of the program is an exact rational <<n, d>>,     *)
(* d > 0, in lowest terms.  Matrices are those of a basis in which the     *)
(* overlap is the identity and every operator is diagonal, so a one-body   *)
(* operator, a density matrix and a Fock matrix are vectors over Basis,    *)
(* and the generalized eigenproblem F c = e S c is solved by sorting the   *)
(* diagonal of F.                                                          *)
(***************************************************************************)
EXTENDS Integers, Sequences, FiniteSets, TLC

VARIABLES
    wfn_kind,     \* "R": RestrictedWFN, "U": UnrestrictedWFN
    occ_model,    \* wfn.occ_model: [nalpha, nbeta] of AufbauOccModel
    wfn_cache,    \* wfn._cache: exp_alpha, exp_beta, dm_alpha, dm_beta, dm_full, dm_spin
    ham_terms,    \* ham.terms: sequence of [type, label, op]
    ham_cache,    \* ham.cache: op_<label>[_alpha|_beta]
    sys_extra,    \* system.extra: energy_<label>, energy_nn, energy
    sys_ops,      \* the integrals of the system: [kin, na, er, nn]
    pc,           \* position of the running solver call
    call,         \* the running call: [solver, maxiter, threshold], or the
                  \* arguments and outcome of the constructor or assign
    i,            \* the solver's iteration counter
    converged,    \* the solver's converged flag
    loc,          \* the solver's local buffers (fock0, dm0, energy0, ...)
    hist,         \* history of the observable events of the run
    cubic         \* find_min_cubic under test: [phase, f0, f1, g0, g1, x]

vars == <<wfn_kind, occ_model, wfn_cache, ham_terms, ham_cache, sys_extra,
          sys_ops, pc, call, i, converged, loc, hist, cubic>>

-----------------------------------------------------------------------------
(* Exact rational arithmetic.                                              *)

Abs(n) == IF n < 0 THEN -n ELSE n

RECURSIVE Gcd(_, _)
Gcd(m, n) == IF n = 0 THEN m ELSE Gcd(n, m % n)

\* the rational n/d (d # 0) in lowest terms with a positive denominator
Q(n, d) ==
    LET g == Gcd(Abs(n), Abs(d))
        s == IF d < 0 THEN -1 ELSE 1
    IN  <<(s * n) \div g, (s * d) \div g>>

QI(n) == <<n, 1>>
QAdd(x, y) == Q(x[1] * y[2] + y[1] * x[2], x[2] * y[2])
QSub(x, y) == Q(x[1] * y[2] - y[1] * x[2], x[2] * y[2])
QMul(x, y) == Q(x[1] * y[1], x[2] * y[2])
QNeg(x) == <<-x[1], x[2]>>
QAbs(x) == <<Abs(x[1]), x[2]>>
QLt(x, y) == x[1] * y[2] < y[1] * x[2]
QLe(x, y) == x[1] * y[2] <= y[1] * x[2]
QZero == QI(0)
QOne == QI(1)

-----------------------------------------------------------------------------
(* find_min_cubic (src/scf.py).  The arguments are integers; the result is *)
(* a rational.  np.sqrt is exact on the perfect squares, which is where    *)
(* the cubic branch is applied by CubicInputs below.                       *)

IsSquare(n) == n >= 0 /\ \E s \in 0..n : s * s = n
Sqrt(n) == CHOOSE s \in 0..n : s * s <= n /\ (s + 1) * (s + 1) > n

\* a*x**3 + b*x**2 + c*x + d  at the rational x
CubicA(f0, f1, g0, g1) == g1 - 2 * f1 + g0 + 2 * f0
CubicB(f0, f1, g0, g1) == f1 - CubicA(f0, f1, g0, g1) - g0 - f0
Discriminant(f0, f1, g0, g1) ==
    LET a == CubicA(f0, f1, g0, g1)
        b == CubicB(f0, f1, g0, g1)
    IN  b * b - 3 * a * g0

\* a test that takes the cubic formula whenever there is a cubic term
UseCubicAlways(a, b, c) == a # 0

\* "b*b < abs(3*a*c)*1e5": the cubic term is not negligible
UseCubic(a, b, c) == b * b < Abs(3 * a * c) * 100000

InUnit(x) == QLe(QZero, x) /\ QLe(x, QOne)

\* a test of the solutions that does not look at the curvature
AdmissibleAnyCurvature(a, b, x) == InUnit(x)

\* "if x >= 0 and x <= 1: curv = 6*a*x+2*b; if curv > 0: return x"
Admissible(a, b, x) ==
    /\ InUnit(x)
    /\ QLt(QZero, QAdd(QMul(QI(6 * a), x), QI(2 * b)))

\* a boundary choice that resolves the tie f0 = f1 the other way
EdgeTieZero(f0, f1) == IF f0 <= f1 THEN QZero ELSE QOne

\* "If we get here, no solution was found in the interval. One of the
\* boundaries is then the minimum"
Edge(f0, f1) == IF f0 < f1 THEN QZero ELSE QOne

find_min_cubic(f0, f1, g0, g1) ==
    LET d == f0
        c == g0
        a == g1 - 2 * f1 + c + 2 * d
        b == f1 - a - c - d
        discriminant == b * b - 3 * a * c
    IN  IF discriminant >= 0
        THEN IF UseCubic(a, b, c)
             THEN LET xa == Q(-b + Sqrt(discriminant), 3 * a)
                      xb == Q(-b - Sqrt(discriminant), 3 * a)
                  IN  IF Admissible(a, b, xa) THEN xa
                      ELSE IF Admissible(a, b, xb) THEN xb
                      ELSE Edge(f0, f1)
             ELSE IF b > 0 /\ InUnit(Q(-c, 2 * b)) THEN Q(-c, 2 * b)
             ELSE Edge(f0, f1)
        ELSE Edge(f0, f1)

\* what find_min_cubic writes to the log at level high: the branches taken,
\* 'cubic' or 'quadratic', and 'edge' when no solution was returned
find_min_cubic_log(f0, f1, g0, g1) ==
    LET a == CubicA(f0, f1, g0, g1)
        b == CubicB(f0, f1, g0, g1)
        c == g0
        discriminant == b * b - 3 * a * c
    IN  IF discriminant >= 0
        THEN IF UseCubic(a, b, c)
             THEN IF \/ Admissible(a, b, Q(-b + Sqrt(discriminant), 3 * a))
                     \/ Admissible(a, b, Q(-b - Sqrt(discriminant), 3 * a))
                  THEN <<"cubic">>
                  ELSE <<"cubic", "edge">>
             ELSE IF b > 0
             THEN IF InUnit(Q(-c, 2 * b)) THEN <<"quadratic">>
                  ELSE <<"quadratic", "edge">>
             ELSE <<"edge">>
        ELSE <<"edge">>

\* p(x) for the cubic with p(0)=f0, p(1)=f1, p'(0)=g0, p'(1)=g1
CubicValue(f0, f1, g0, g1, x) ==
    LET a == CubicA(f0, f1, g0, g1)
        b == CubicB(f0, f1, g0, g1)
        n == x[1]
        m == x[2]
    IN  Q(a * n * n * n + b * n * n * m + g0 * n * m * m + f0 * m * m * m,
          m * m * m)


-----------------------------------------------------------------------------
(* Dense linear algebra on the diagonal representation.                    *)

Basis == {1, 2}
Channels == {"alpha", "beta"}

RECURSIVE QSum(_, _)
\* sum over the index set S of the rationals f[a]
QSum(f, S) ==
    IF S = {} THEN QZero
    ELSE LET a == CHOOSE a \in S : TRUE
         IN  QAdd(f[a], QSum(f, S \ {a}))

ZeroVec == [a \in Basis |-> QZero]
VAdd(u, v) == [a \in Basis |-> QAdd(u[a], v[a])]
VScale(s, u) == [a \in Basis |-> QMul(s, u[a])]
\* OneBody.iadd(other, factor)
iadd(u, v, factor) == VAdd(u, VScale(factor, v))
\* OneBody.expectation_value(dm) / contract_two('ab,ab', dm)
expectation_value(op, dm) == QSum([a \in Basis |-> QMul(op[a], dm[a])], Basis)
\* the square of OneBody.distance(other)
distance2(u, v) ==
    QSum([a \in Basis |-> QMul(QSub(u[a], v[a]), QSub(u[a], v[a]))], Basis)

\* contract_two_to_two('abcd,bd->ac', dm): the direct (Coulomb) operator
contract_direct(er, dm) ==
    [a \in Basis |-> QSum([b \in Basis |-> QMul(QI(er[a][b]), dm[b])], Basis)]
\* contract_two_to_two('abcd,cb->ad', dm): the exchange operator
contract_exchange(er, dm) == [a \in Basis |-> QMul(QI(er[a][a]), dm[a])]

\* orbital index -> basis function, by ascending key, ties by basis index
SortedOrder(key) ==
    CHOOSE p \in [Basis -> Basis] :
        /\ \A k, l \in Basis : k # l => p[k] # p[l]
        /\ \A k, l \in Basis : k < l =>
              \/ QLt(key[p[k]], key[p[l]])
              \/ (key[p[k]] = key[p[l]] /\ p[k] < p[l])

\* the square of lf.error_eigen(fock, overlap, exp): mean of the squared
\* elements of  F C - S C diag(e)
error_eigen2(fock, exp) ==
    QMul(QSum([k \in Basis |->
                 LET r == QSub(fock[exp.coeffs[k]], exp.energies[k])
                 IN  QMul(r, r)], Basis),
         Q(1, Cardinality(Basis) * Cardinality(Basis)))

\* Expansion.derive_from_fock_matrix: energies ascending, occupations kept
\* for the occupation model to assign
derive_from_fock_matrix(fock) ==
    LET p == SortedOrder(fock)
    IN  [coeffs |-> p,
         energies |-> [k \in Basis |-> fock[p[k]]],
         occupations |-> ZeroVec]

\* an expansion that keeps no trace of the density matrix
derive_ignoring_density(dm, fock) ==
    [coeffs |-> SortedOrder(fock),
     energies |-> [k \in Basis |-> fock[SortedOrder(fock)[k]]],
     occupations |-> ZeroVec]

\* Expansion.derive_from_density_and_fock_matrix: orbitals of the Fock
\* matrix level-shifted by -0.001 S D S, energies and occupations are the
\* expectation values of fock and dm
derive_from_density_and_fock_matrix(dm, fock) ==
    LET p == SortedOrder(iadd(fock, dm, Q(-1, 1000)))
    IN  [coeffs |-> p,
         energies |-> [k \in Basis |-> fock[p[k]]],
         occupations |-> [k \in Basis |-> dm[p[k]]]]

\* Expansion.compute_density_matrix
compute_density_matrix(exp) ==
    [a \in Basis |->
        LET k == CHOOSE k \in Basis : exp.coeffs[k] = a
        IN  exp.occupations[k]]


-----------------------------------------------------------------------------
(* Cache (horton.cache), as a function from the present keys to values.    *)

EmptyCache == [k \in {} |-> QZero]
Has(cache, key) == key \in DOMAIN cache
Store(cache, key, value) ==
    [k \in DOMAIN cache \cup {key} |-> IF k = key THEN value ELSE cache[k]]
clear_item(cache, key) == [k \in DOMAIN cache \ {key} |-> cache[k]]

\* the result of a call that may raise: ok, the exception, the caches as
\* the call leaves them, and its value
Result(wc, hc, v) == [ok |-> TRUE, exc |-> "", wfn |-> wc, ham |-> hc, val |-> v]
Raise(e, wc, hc) == [ok |-> FALSE, exc |-> e, wfn |-> wc, ham |-> hc, val |-> QZero]

-----------------------------------------------------------------------------
(* MeanFieldWFN, RestrictedWFN, UnrestrictedWFN (src/wfn.py).              *)

Spins(kind) == IF kind = "R" THEN {"alpha"} ELSE {"alpha", "beta"}

\* wfn.invalidate() / wfn.clear()
invalidate(wc) == EmptyCache

\* get_dm for select = spin in {alpha, beta}: update_dm allocates the
\* entry (init_dm) before it loads the expansion
get_dm_spin(wc, spin) ==
    IF Has(wc, "dm_" \o spin)
    THEN Result(wc, EmptyCache, wc["dm_" \o spin])
    ELSE LET wc1 == Store(wc, "dm_" \o spin, ZeroVec)
         IN  IF Has(wc1, "exp_" \o spin)
             THEN LET dm == compute_density_matrix(wc1["exp_" \o spin])
                  IN  Result(Store(wc1, "dm_" \o spin, dm), EmptyCache, dm)
             ELSE Raise("AttributeError", wc1, EmptyCache)

\* get_dm('full') once dm_beta is there: UnrestrictedWFN._assign_dm_full
full_with_beta(ra, rb) ==
    IF ~rb.ok THEN rb
    ELSE Result(Store(rb.wfn, "dm_full", VAdd(ra.val, rb.val)), EmptyCache,
                VAdd(ra.val, rb.val))

\* get_dm('full') once dm_alpha is there: _assign_dm_full of the two classes
full_with_alpha(kind, ra) ==
    IF ~ra.ok THEN ra
    ELSE IF kind = "R"
    THEN Result(Store(ra.wfn, "dm_full", VScale(QI(2), ra.val)), EmptyCache,
                VScale(QI(2), ra.val))
    ELSE full_with_beta(ra, get_dm_spin(Store(ra.wfn, "dm_full", ra.val), "beta"))

\* get_dm('full'): update_dm allocates the entry, then _assign_dm_full
get_dm_full(kind, wc) ==
    IF Has(wc, "dm_full")
    THEN Result(wc, EmptyCache, wc["dm_full"])
    ELSE full_with_alpha(kind, get_dm_spin(Store(wc, "dm_full", ZeroVec), "alpha"))

get_dm(kind, wc, select) ==
    IF select = "full" THEN get_dm_full(kind, wc) ELSE get_dm_spin(wc, select)

\* get_exp / the exp_alpha, exp_beta attributes
get_exp(wc, spin) ==
    IF Has(wc, "exp_" \o spin)
    THEN Result(wc, EmptyCache, wc["exp_" \o spin])
    ELSE Raise("AttributeError", wc, EmptyCache)

\* update_dm(select, dm) with a given matrix
update_dm(wc, select, dm) ==
    IF Has(wc, "dm_" \o select)
    THEN Raise("RuntimeError", wc, EmptyCache)
    ELSE Result(Store(wc, "dm_" \o select, dm), EmptyCache, dm)

\* the occupations AufbauOccModel.assign writes for nocc electrons (a
\* rational) in nfn orbitals
aufbau_occupations(nocc) ==
    LET fl == nocc[1] \div nocc[2]
    IN  [k \in Basis |->
            IF nocc[2] = 1
            THEN (IF k <= nocc[1] THEN QOne ELSE QZero)
            ELSE (IF k <= fl THEN QOne
                  ELSE IF k = fl + 1 THEN QSub(nocc, QI(fl))
                  ELSE QZero)]

Nocc(om, spin) == IF spin = "alpha" THEN om.nalpha ELSE om.nbeta

\* AufbauOccModel.assign on one expansion
assign(om, spin, exp) ==
    [exp EXCEPT !.occupations = aufbau_occupations(Nocc(om, spin))]

assign_fits(om, spin) == ~QLt(QI(Cardinality(Basis)), Nocc(om, spin))

\* R/UnrestrictedWFN.update_exp(fock..., overlap): diagonalize, then let
\* the occupation model assign
update_exp(kind, om, wc, focks) ==
    IF \E s \in Spins(kind) : Has(wc, "exp_" \o s)
    THEN Raise("RuntimeError", wc, EmptyCache)
    ELSE LET raw == [s \in Spins(kind) |-> derive_from_fock_matrix(focks[s])]
             wc1 == [k \in DOMAIN wc \cup {"exp_" \o s : s \in Spins(kind)} |->
                        IF \E s \in Spins(kind) : k = "exp_" \o s
                        THEN raw[CHOOSE s \in Spins(kind) : k = "exp_" \o s]
                        ELSE wc[k]]
         IN  IF \E s \in Spins(kind) : ~assign_fits(om, s)
             THEN Raise("ElectronCountError", wc1, EmptyCache)
             ELSE Result([k \in DOMAIN wc1 |->
                            IF \E s \in Spins(kind) : k = "exp_" \o s
                            THEN LET s == CHOOSE s \in Spins(kind) : k = "exp_" \o s
                                 IN  assign(om, s, raw[s])
                            ELSE wc1[k]],
                         EmptyCache, QZero)

\* an update from given density matrices that derives the expansions from
\* the Fock matrices alone
update_exp_dm_fock_only(kind, wc, focks, dms) ==
    IF \E s \in Spins(kind) : Has(wc, "exp_" \o s) \/ Has(wc, "dm_" \o s)
    THEN Raise("RuntimeError", wc, EmptyCache)
    ELSE Result([k \in DOMAIN wc \cup {"exp_" \o s : s \in Spins(kind)}
                                 \cup {"dm_" \o s : s \in Spins(kind)} |->
                    IF \E s \in Spins(kind) : k = "exp_" \o s
                    THEN LET s == CHOOSE s \in Spins(kind) : k = "exp_" \o s
                         IN  derive_ignoring_density(dms[s], focks[s])
                    ELSE IF \E s \in Spins(kind) : k = "dm_" \o s
                    THEN dms[CHOOSE s \in Spins(kind) : k = "dm_" \o s]
                    ELSE wc[k]],
                EmptyCache, QZero)

\* update_exp(fock..., overlap, dm...): the density matrices are stored and
\* the expansions are derived from them
update_exp_dm(kind, wc, focks, dms) ==
    IF \E s \in Spins(kind) : Has(wc, "exp_" \o s) \/ Has(wc, "dm_" \o s)
    THEN Raise("RuntimeError", wc, EmptyCache)
    ELSE Result([k \in DOMAIN wc \cup {"exp_" \o s : s \in Spins(kind)}
                                 \cup {"dm_" \o s : s \in Spins(kind)} |->
                    IF \E s \in Spins(kind) : k = "exp_" \o s
                    THEN LET s == CHOOSE s \in Spins(kind) : k = "exp_" \o s
                         IN  derive_from_density_and_fock_matrix(dms[s], focks[s])
                    ELSE IF \E s \in Spins(kind) : k = "dm_" \o s
                    THEN dms[CHOOSE s \in Spins(kind) : k = "dm_" \o s]
                    ELSE wc[k]],
                EmptyCache, QZero)


-----------------------------------------------------------------------------
(* Energy terms (src/linear.py, src/observable.py) and the Hamiltonian     *)
(* (src/hamiltonian.py).  A term is [type, label, op]; type is "linear",   *)
(* "direct" or "exchange"; op names the integrals of sys_ops it contracts. *)

ExchangeFraction == QOne

\* a cached operator that is contracted again on top of its old content
load_and_add(hc, key, built) ==
    IF Has(hc, key)
    THEN [cache |-> Store(hc, key, VAdd(hc[key], built)), op |-> VAdd(hc[key], built)]
    ELSE [cache |-> Store(hc, key, built), op |-> built]

\* an operator that is contracted at every use
load_and_rebuild(hc, key, built) == [cache |-> Store(hc, key, built), op |-> built]

\* cache.load(key, alloc=dm.new): the cached operator, or the freshly
\* contracted one when the entry is absent ("if new:")
load_or_build(hc, key, built) ==
    IF Has(hc, key) THEN [cache |-> hc, op |-> hc[key]]
    ELSE [cache |-> Store(hc, key, built), op |-> built]

\* RDirectTerm._update_direct
r_update_direct(t, ops, hc, dm_alpha) ==
    load_or_build(hc, "op_" \o t.label \o "_alpha",
                  VScale(QI(2), contract_direct(ops[t.op], dm_alpha)))
\* UDirectTerm._update_direct
u_update_direct(t, ops, hc, dm_full) ==
    load_or_build(hc, "op_" \o t.label, contract_direct(ops[t.op], dm_full))
\* RExchangeTerm._update_exchange and each half of UExchangeTerm's
update_exchange(t, ops, hc, spin, dm) ==
    load_or_build(hc, "op_" \o t.label \o "_" \o spin,
                  contract_exchange(ops[t.op], dm))

\* a term's result once its operator is in the cache
with_op(wc, built, val) == Result(wc, built.cache, val)

\* UExchangeTerm.compute_energy with both operators in the cache
u_exchange_energy(rb, xa, xb, dma, dmb) ==
    with_op(rb.wfn, xb,
            QSub(QNeg(QMul(QMul(Q(1, 2), ExchangeFraction),
                           expectation_value(xa.op, dma))),
                 QMul(QMul(Q(1, 2), ExchangeFraction),
                      expectation_value(xb.op, dmb))))

u_exchange_beta(t, ops, ra, rb, xa) ==
    u_exchange_energy(rb, xa, update_exchange(t, ops, xa.cache, "beta", rb.val),
                      ra.val, rb.val)

u_exchange_alpha(t, ops, hc, ra, rb) ==
    IF ~rb.ok THEN Raise(rb.exc, rb.wfn, hc)
    ELSE u_exchange_beta(t, ops, ra, rb,
                         update_exchange(t, ops, hc, "alpha", ra.val))

\* R/UDirectTerm.compute_energy with the operator in the cache
direct_energy(kind, ra, d) ==
    with_op(ra.wfn, d,
            IF kind = "R" THEN expectation_value(d.op, ra.val)
            ELSE QMul(Q(1, 2), expectation_value(d.op, ra.val)))

\* RExchangeTerm.compute_energy with the operator in the cache
r_exchange_energy(ra, x) ==
    with_op(ra.wfn, x,
            QNeg(QMul(ExchangeFraction, expectation_value(x.op, ra.val))))

\* term.compute() given the density matrix ra it asks the wavefunction for
term_energy(t, kind, ops, hc, ra) ==
    IF ~ra.ok THEN Raise(ra.exc, ra.wfn, hc)
    ELSE IF t.type = "linear"
    THEN Result(ra.wfn, hc,
                IF kind = "R"
                THEN QMul(QI(2), expectation_value(ops[t.op], ra.val))
                ELSE expectation_value(ops[t.op], ra.val))
    ELSE IF t.type = "direct"
    THEN direct_energy(kind, ra,
                       IF kind = "R" THEN r_update_direct(t, ops, hc, ra.val)
                       ELSE u_update_direct(t, ops, hc, ra.val))
    ELSE IF kind = "R"
    THEN r_exchange_energy(ra, update_exchange(t, ops, hc, "alpha", ra.val))
    ELSE u_exchange_alpha(t, ops, hc, ra, get_dm(kind, ra.wfn, "beta"))

\* term.compute(): the energy of one term
term_compute(t, kind, ops, wc, hc) ==
    term_energy(t, kind, ops, hc,
                get_dm(kind, wc, IF kind = "U" /\ t.type # "exchange"
                                 THEN "full" ELSE "alpha"))

\* Fock operators that are assigned the contribution instead
assign_to_focks(kind, focks, opa, opb, factor) ==
    [s \in Spins(kind) |->
        iadd(ZeroVec, IF s = "alpha" THEN opa ELSE opb, factor)]

\* fock.iadd(op, factor) on the Fock operators of the wavefunction's spins
add_to_focks(kind, focks, opa, opb, factor) ==
    [s \in Spins(kind) |->
        iadd(focks[s], IF s = "alpha" THEN opa ELSE opb, factor)]

fock_with_op(wc, built, kind, focks, factor) ==
    Result(wc, built.cache, add_to_focks(kind, focks, built.op, built.op, factor))

\* UExchangeTerm.add_fock_matrix with both operators in the cache
u_exchange_fock(rb, xa, xb, focks) ==
    Result(rb.wfn, xb.cache,
           add_to_focks("U", focks, xa.op, xb.op, QNeg(ExchangeFraction)))

u_exchange_fock_beta(t, ops, rb, xa, focks) ==
    u_exchange_fock(rb, xa, update_exchange(t, ops, xa.cache, "beta", rb.val),
                    focks)

u_exchange_fock_alpha(t, ops, hc, ra, rb, focks) ==
    IF ~rb.ok THEN Raise(rb.exc, rb.wfn, hc)
    ELSE u_exchange_fock_beta(t, ops, rb,
                              update_exchange(t, ops, hc, "alpha", ra.val), focks)

\* add_fock_matrix of a direct or exchange term given the density matrix
two_body_fock(t, kind, ops, hc, focks, ra) ==
    IF ~ra.ok THEN Raise(ra.exc, ra.wfn, hc)
    ELSE IF t.type = "direct"
    THEN fock_with_op(ra.wfn,
                      IF kind = "R" THEN r_update_direct(t, ops, hc, ra.val)
                      ELSE u_update_direct(t, ops, hc, ra.val),
                      kind, focks, QOne)
    ELSE IF kind = "R"
    THEN fock_with_op(ra.wfn, update_exchange(t, ops, hc, "alpha", ra.val),
                      kind, focks, QNeg(ExchangeFraction))
    ELSE u_exchange_fock_alpha(t, ops, hc, ra, get_dm(kind, ra.wfn, "beta"), focks)

\* wfn.dm_alpha, then wfn.dm_beta of an unrestricted wavefunction
dms_with_beta(ra, rb) ==
    IF ~rb.ok THEN rb
    ELSE Result(rb.wfn, EmptyCache,
                [s \in {"alpha", "beta"} |-> IF s = "alpha" THEN ra.val ELSE rb.val])

dms_with_alpha(kind, ra) ==
    IF ~ra.ok THEN ra
    ELSE IF kind = "R"
    THEN Result(ra.wfn, EmptyCache, [s \in {"alpha"} |-> ra.val])
    ELSE dms_with_beta(ra, get_dm(kind, ra.wfn, "beta"))

\* A grid term, [type |-> "grid", label, op], hands the potentials of its
\* functional on the grid points to the Hamiltonian: the density potential,
\* and for op = "gga" the gradient potential as well.  The functional and
\* the grid are external; here the grid points are the basis functions.
grid_dpot(dm) == VScale(QNeg(QOne), dm)
grid_gpot(dm) == VScale(Q(1, 2), dm)

\* the total potential of the Hamiltonian's cache, with pot added to it
add_total(hc, key, pot) ==
    Store(hc, key, IF Has(hc, key) THEN VAdd(hc[key], pot) ELSE pot)

grid_total_gradient(t, h1, spin, dm) ==
    IF t.op = "gga"
    THEN add_total(h1, "gpot_total_" \o spin, grid_gpot(dm))
    ELSE h1

grid_total_spin(t, hc, spin, dm) ==
    grid_total_gradient(t, add_total(hc, "dpot_total_" \o spin, grid_dpot(dm)),
                        spin, dm)

\* add_fock_matrix(..., postpone_grid=True) of a grid term: nothing is added
\* to the Fock operators yet
grid_postponed(t, kind, hc, focks, rd) ==
    IF ~rd.ok THEN Raise(rd.exc, rd.wfn, hc)
    ELSE Result(rd.wfn,
                IF kind = "R"
                THEN grid_total_spin(t, hc, "alpha", rd.val["alpha"])
                ELSE grid_total_spin(t,
                        grid_total_spin(t, hc, "alpha", rd.val["alpha"]),
                        "beta", rd.val["beta"]),
                focks)

\* term.add_fock_matrix(fock_alpha, fock_beta): focks is a function on the
\* spins of the wavefunction (fock_beta is None for a restricted one)
term_add_fock(t, kind, ops, wc, hc, focks) ==
    IF t.type = "grid"
    THEN grid_postponed(t, kind, hc, focks,
                        dms_with_alpha(kind, get_dm(kind, wc, "alpha")))
    ELSE IF t.type = "linear"
    THEN Result(wc, hc, add_to_focks(kind, focks, ops[t.op], ops[t.op], QOne))
    ELSE two_body_fock(t, kind, ops, hc, focks,
                       get_dm(kind, wc, IF kind = "U" /\ t.type = "direct"
                                        THEN "full" ELSE "alpha"))

\* a clear() that drops the recorded energies with the operators
ham_clear_energies(hc, extra) == [cache |-> EmptyCache, extra |-> EmptyCache]

\* a clear() that marks nothing as outdated
ham_clear_nothing(hc, extra) == [cache |-> hc, extra |-> extra]

\* Hamiltonian.clear(): self.cache.clear(); system.extra is not touched
ham_clear(hc, extra) == [cache |-> EmptyCache, extra |-> extra]

\* a total that leaves the nuclear repulsion out
compute_end_without_nn(wc, hc, extra, total, energy) ==
    Result(wc, hc,
           [total |-> total,
            extra |-> Store(Store(extra, "energy_nn", energy), "energy", total)])

\* the end of Hamiltonian.compute(): the nuclear repulsion and the total
compute_end(wc, hc, extra, total, energy) ==
    Result(wc, hc,
           [total |-> QAdd(total, energy),
            extra |-> Store(Store(extra, "energy_nn", energy),
                            "energy", QAdd(total, energy))])

RECURSIVE compute_from(_, _, _, _, _, _, _, _)
\* one pass of the loop of Hamiltonian.compute(), r being term.compute()
compute_step(n, terms, kind, ops, extra, total, r) ==
    IF ~r.ok
    THEN [ok |-> FALSE, exc |-> r.exc, wfn |-> r.wfn, ham |-> r.ham,
          val |-> [total |-> total, extra |-> extra]]
    ELSE compute_from(n + 1, terms, kind, ops, r.wfn, r.ham,
                      Store(extra, "energy_" \o terms[n].label, r.val),
                      QAdd(total, r.val))

\* Hamiltonian.compute(), the loop over the terms from index n with the
\* running total; the value is [total, extra]
compute_from(n, terms, kind, ops, wc, hc, extra, total) ==
    IF n > Len(terms)
    THEN compute_end(wc, hc, extra, total, QI(ops.nn))
    ELSE compute_step(n, terms, kind, ops, extra, total,
                      term_compute(terms[n], kind, ops, wc, hc))

\* Hamiltonian.compute()
ham_compute(terms, kind, ops, wc, hc, extra) ==
    compute_from(1, terms, kind, ops, wc, hc, extra, QZero)

RECURSIVE compute_fock_from(_, _, _, _, _, _, _)
\* one pass of the loop of Hamiltonian.compute_fock()
compute_fock_step(n, terms, kind, ops, focks, r) ==
    IF ~r.ok
    THEN [ok |-> FALSE, exc |-> r.exc, wfn |-> r.wfn, ham |-> r.ham,
          val |-> focks]
    ELSE compute_fock_from(n + 1, terms, kind, ops, r.wfn, r.ham, r.val)

compute_fock_from(n, terms, kind, ops, wc, hc, focks) ==
    IF n > Len(terms) THEN Result(wc, hc, focks)
    ELSE compute_fock_step(n, terms, kind, ops, focks,
                           term_add_fock(terms[n], kind, ops, wc, hc, focks))

\* system.compute_grid_density_fock / compute_grid_gradient_fock: the
\* operator of a potential on the grid, added to fock
compute_grid_density_fock(dpot, fock) == VAdd(fock, dpot)
compute_grid_gradient_fock(gpot, fock) == iadd(fock, gpot, QI(2))

grid_gradient_fock(hc, spin, fock) ==
    IF Has(hc, "gpot_total_" \o spin)
    THEN compute_grid_gradient_fock(hc["gpot_total_" \o spin], fock)
    ELSE fock

\* "Collect potentials for alpha electrons" (and for beta electrons)
grid_fock(hc, spin, fock) ==
    grid_gradient_fock(hc, spin,
        IF Has(hc, "dpot_total_" \o spin)
        THEN compute_grid_density_fock(hc["dpot_total_" \o spin], fock)
        ELSE fock)

\* "Collect all the total potentials and turn them into contributions for
\* the fock matrix/matrices"; r is the outcome of the loop over the terms
collect_potentials(kind, r) ==
    IF ~r.ok THEN r
    ELSE Result(r.wfn, r.ham,
                [s \in Spins(kind) |-> grid_fock(r.ham, s, r.val[s])])

\* transformations in the order gradient, density
grid_calls_gradient_first(hc, spin) ==
    (IF Has(hc, "gpot_total_" \o spin)
     THEN << <<"compute_grid_gradient_fock", spin>> >> ELSE << >>)
    \o (IF Has(hc, "dpot_total_" \o spin)
        THEN << <<"compute_grid_density_fock", spin>> >> ELSE << >>)

\* the grid-to-Fock transformations compute_fock makes for one spin channel
grid_calls(hc, spin) ==
    (IF Has(hc, "dpot_total_" \o spin)
     THEN << <<"compute_grid_density_fock", spin>> >> ELSE << >>)
    \o (IF Has(hc, "gpot_total_" \o spin)
        THEN << <<"compute_grid_gradient_fock", spin>> >> ELSE << >>)

\* the calls a compute_fock that returns makes, in order: add_fock_matrix of
\* every term, then the transformations; hc is the cache after the terms
compute_fock_calls(terms, kind, hc) ==
    [n \in 1..Len(terms) |-> <<"add_fock_matrix", terms[n].label>>]
    \o grid_calls(hc, "alpha")
    \o (IF kind = "U" THEN grid_calls(hc, "beta") ELSE << >>)

\* Hamiltonian.compute_fock(fock_alpha, fock_beta): adds to the buffers
ham_compute_fock(terms, kind, ops, wc, hc, focks) ==
    collect_potentials(kind,
                       compute_fock_from(1, terms, kind, ops, wc, hc, focks))

ZeroFocks(kind) == [s \in Spins(kind) |-> ZeroVec]

-----------------------------------------------------------------------------
(* check_dm and the pieces of the solvers (src/utils.py, src/scf.py).      *)

None == -1

Eps == Q(1, 10000)
OccMax == QOne

\* orb.derive_naturals(dm, overlap): in the diagonal representation the
\* natural occupations are the elements of dm
derive_naturals(dm) == dm

\* orb.occupations.min(), orb.occupations.max()
occupations_min(occ) == CHOOSE x \in {occ[a] : a \in Basis} :
                           \A a \in Basis : QLe(x, occ[a])
occupations_max(occ) == CHOOSE x \in {occ[a] : a \in Basis} :
                           \A a \in Basis : QLe(occ[a], x)

\* a check of the lower bound only
check_dm_lower_only(dm, eps, occ_max) ==
    IF QLt(occupations_min(derive_naturals(dm)), QNeg(eps))
    THEN "ValueError" ELSE "ok"

\* check_dm(dm, overlap, eps, occ_max): "ValueError" or "ok"
check_dm_eps(dm, eps, occ_max) ==
    LET occupations == derive_naturals(dm)
    IN  IF QLt(occupations_min(occupations), QNeg(eps)) THEN "ValueError"
        ELSE IF QLt(QAdd(occ_max, eps), occupations_max(occupations))
        THEN "ValueError"
        ELSE "ok"

\* check_dm(dm, overlap) with the default eps and occ_max; TRUE when no
\* ValueError is raised
check_dm(dm) == check_dm_eps(dm, Eps, OccMax) = "ok"

\* a loop test that lets the body run once more
LoopGuardInclusive(maxiter, n) == maxiter = None \/ n <= maxiter

\* "while maxiter is None or i < maxiter"
LoopGuard(maxiter, n) == maxiter = None \/ n < maxiter

\* error < threshold for the norms error_eigen and distance, on the squares
Below(err2, threshold) == QLt(err2, QMul(threshold, threshold))

\* a stop condition met by one spin channel alone
scf_converged_any(kind, focks, wc, threshold) ==
    \E s \in Spins(kind) : Below(error_eigen2(focks[s], wc["exp_" \o s]), threshold)

\* the stop condition of converge_scf_cs / converge_scf_os
scf_converged(kind, focks, wc, threshold) ==
    \A s \in Spins(kind) : Below(error_eigen2(focks[s], wc["exp_" \o s]), threshold)

\* the distance test of converge_scf_oda_cs / converge_scf_oda_os
oda_close(kind, dm2, dm0, threshold) ==
    \A s \in Spins(kind) : Below(distance2(dm2[s], dm0[s]), threshold)

\* ev_xy = fock_x.expectation_value(dm_y), summed over the spin channels
ev(kind, focks, dms) ==
    QSum([s \in Spins(kind) |-> expectation_value(focks[s], dms[s])],
         Spins(kind))

\* energy0_deriv, energy1_deriv: 2*(ev_01-ev_00) restricted, (ev_01-ev_00)
\* unrestricted
energy_deriv(kind, fock, dm0, dm1) ==
    QMul(IF kind = "R" THEN QI(2) ELSE QOne,
         QSub(ev(kind, fock, dm1), ev(kind, fock, dm0)))

Lcm(m, n) == (m * n) \div Gcd(m, n)

\* mixing = find_min_cubic(energy0, energy1, energy0_deriv, energy1_deriv);
\* the result does not change when the four arguments are multiplied by a
\* common positive factor, here the common denominator
mixing_of(energy0, energy1, energy0_deriv, energy1_deriv) ==
    LET L == Lcm(Lcm(energy0[2], energy1[2]),
                 Lcm(energy0_deriv[2], energy1_deriv[2]))
        I(x) == x[1] * (L \div x[2])
    IN  find_min_cubic(I(energy0), I(energy1), I(energy0_deriv), I(energy1_deriv))

\* the two density matrices mixed with the weights exchanged
damped_exchanged(kind, dm0, dm1, mixing) ==
    [s \in Spins(kind) |->
        iadd(iadd(ZeroVec, dm0[s], mixing), dm1[s], QSub(QOne, mixing))]

\* dm2.clear(); dm2.iadd(dm1, factor=mixing); dm2.iadd(dm0, factor=1-mixing)
damped(kind, dm0, dm1, mixing) ==
    [s \in Spins(kind) |->
        iadd(iadd(ZeroVec, dm1[s], mixing), dm0[s], QSub(QOne, mixing))]

\* wfn.dm_alpha (and wfn.dm_beta) read one after the other
get_dms(kind, wc) == dms_with_alpha(kind, get_dm(kind, wc, "alpha"))

\* wfn.clear(); wfn.update_dm('alpha', dm2a) (; wfn.update_dm('beta', dm2b))
set_dms(kind, wc, dms) ==
    IF kind = "R"
    THEN update_dm(invalidate(wc), "alpha", dms["alpha"]).wfn
    ELSE update_dm(update_dm(invalidate(wc), "alpha", dms["alpha"]).wfn,
                   "beta", dms["beta"]).wfn

\* every operator of the cache hc is the one r, a fresh evaluation, builds
same_operators(hc, r) ==
    \A k \in DOMAIN hc : r.ok /\ k \in DOMAIN r.ham /\ r.ham[k] = hc[k]

\* the cached operators of the Hamiltonian are those of the density
\* matrices the wavefunction holds now
Coherent(terms, kind, ops, wc, hc) ==
    same_operators(hc, ham_compute_fock(terms, kind, ops, wc, EmptyCache,
                                        ZeroFocks(kind)))

QMax(x, y) == IF QLt(x, y) THEN y ELSE x

\* the square of what convergence_error_cs / convergence_error_os return,
\* r being the outcome of ham.compute_fock
errors_of(kind, r) ==
    IF kind = "R"
    THEN error_eigen2(r.val["alpha"], r.wfn["exp_alpha"])
    ELSE QMax(error_eigen2(r.val["alpha"], r.wfn["exp_alpha"]),
              error_eigen2(r.val["beta"], r.wfn["exp_beta"]))

\* the square of convergence_error(ham)
convergence_error2(kind, terms, ops, wc, hc) ==
    errors_of(kind, ham_compute_fock(terms, kind, ops, wc, hc, ZeroFocks(kind)))

-----------------------------------------------------------------------------
(* The systems, wavefunctions and calls explored.                          *)

MaxIter == 3      \* maxiter ranges over 0..MaxIter and None
IterCap == 4      \* iterations explored of a loop with maxiter = None
MaxCalls == 2     \* solver calls in one run

Vec(x, y) == [a \in Basis |-> IF a = 1 THEN QI(x) ELSE QI(y)]
Mat(j11, j12, j22) ==
    [a \in Basis |-> [b \in Basis |->
        IF a = b THEN (IF a = 1 THEN j11 ELSE j22) ELSE j12]]

\* kinetic, nuclear attraction, electron repulsion, nuclear repulsion
Systems ==
    [kin : {Vec(1, 1), Vec(1, 2)},
     na  : {Vec(-1, -1)},
     er  : {Mat(j11, j12, j22) : j11 \in {0, 2}, j12 \in {0, 1}, j22 \in {2, 4}},
     nn  : {1}]

\* Hamiltonian(system, cache, [HartreeFockExchange()]): the exchange term,
\* then the kinetic, Hartree and external-potential terms added to it
HartreeFockTerms ==
    << [type |-> "exchange", label |-> "exchange_hartree_fock", op |-> "er"],
       [type |-> "linear",   label |-> "kin",     op |-> "kin"],
       [type |-> "direct",   label |-> "hartree", op |-> "er"],
       [type |-> "linear",   label |-> "ne",      op |-> "na"] >>

\* wavefunction classes with their occupation models
Wavefunctions ==
    { [kind |-> "R", occ |-> [nalpha |-> QI(1), nbeta |-> QI(1)]],
      [kind |-> "U", occ |-> [nalpha |-> QI(1), nbeta |-> QI(1)]],
      [kind |-> "U", occ |-> [nalpha |-> QI(1), nbeta |-> QI(0)]] }

\* guess_hamiltonian_core: the orbitals of the core Hamiltonian
guess_hamiltonian_core(kind, om, ops) ==
    update_exp(kind, om, EmptyCache,
               [s \in Spins(kind) |-> VAdd(ops.kin, ops.na)]).wfn

\* the states the wavefunction is handed over in: after the core guess,
\* never initialised, or holding density matrices assigned by the caller
\* (a proper one, and one with an occupation of 2)
InitialWfns(kind, om, ops) ==
    { guess_hamiltonian_core(kind, om, ops),
      EmptyCache,
      set_dms(kind, EmptyCache, [s \in Channels |-> Vec(0, 1)]),
      set_dms(kind, EmptyCache, [s \in Channels |-> Vec(2, 0)]),
      set_dms(kind, EmptyCache,
              [s \in Channels |-> IF s = "alpha" THEN Vec(0, 1) ELSE Vec(1, 0)]) }

Thresholds == {Q(1, 10), Q(1, 2)}

ZeroLoc(kind) ==
    [fock0 |-> ZeroFocks(kind), fock1 |-> ZeroFocks(kind),
     dm0 |-> ZeroFocks(kind), dm1 |-> ZeroFocks(kind), dm2 |-> ZeroFocks(kind),
     energy0 |-> QZero, energy1 |-> QZero,
     energy0_deriv |-> QZero, energy1_deriv |-> QZero, mixing |-> QZero]

NoCall == [solver |-> "none", maxiter |-> 0, threshold |-> QZero, outcome |-> ""]

\* what has been observed of the run: whether the wavefunction was updated
\* since the last ham.clear() and where ("clean", "loop", "final"); whether
\* the Hamiltonian was evaluated in that condition, or with stale operators;
\* the loop bodies begun and the convergence tests passed in this call; the
\* energies ham.compute() returned for the successive points of an ODA call
NoHist ==
    [dirty |-> "clean", useLoop |-> FALSE, useFinal |-> FALSE, stale |-> FALSE,
     nbody |-> 0, npass |-> 0, ncalls |-> 0,
     ne |-> 0, efirst |-> QZero, eprev |-> QZero, ecur |-> QZero]

NoCubic ==
    [phase |-> "off", f0 |-> 0, f1 |-> 0, g0 |-> 0, g1 |-> 0, x |-> QZero,
     log |-> << >>]

Init ==
    /\ \E w \in Wavefunctions, ops \in Systems :
          /\ wfn_kind = w.kind
          /\ occ_model = w.occ
          /\ sys_ops = ops
          /\ wfn_cache \in InitialWfns(w.kind, w.occ, ops)
    /\ ham_terms = HartreeFockTerms
    /\ ham_cache = EmptyCache
    /\ sys_extra = EmptyCache
    /\ pc = "idle"
    /\ call = NoCall
    /\ i = 0
    /\ converged = FALSE
    /\ loc = ZeroLoc(wfn_kind)
    /\ hist = NoHist
    /\ cubic = NoCubic

-----------------------------------------------------------------------------
(* converge_scf and converge_scf_oda as state machines (src/scf.py).       *)

Fixed == <<wfn_kind, occ_model, ham_terms, sys_ops, cubic>>

\* the history after ham.compute_fock() / ham.compute() is called in the
\* current state
Evaluated(h) ==
    [h EXCEPT !.useLoop = @ \/ h.dirty = "loop",
              !.useFinal = @ \/ h.dirty = "final",
              !.stale = @ \/ ~Coherent(ham_terms, wfn_kind, sys_ops,
                                       wfn_cache, ham_cache)]

\* the history after ham.compute() returned e for a point of the ODA path
Recorded(h, e) ==
    [h EXCEPT !.ne = IF @ = 0 THEN 1 ELSE 2,
              !.efirst = IF h.ne = 0 THEN e ELSE @,
              !.eprev = h.ecur,
              !.ecur = e]

Ended(outcome) == [call EXCEPT !.outcome = outcome]

\* a caller invokes converge_scf(ham, maxiter, threshold) or
\* converge_scf_oda(ham, maxiter, threshold)
StartCall ==
    /\ pc \in {"idle", "done"}
    /\ hist.ncalls < MaxCalls
    /\ \E solver \in {"scf", "oda"}, maxiter \in (0..MaxIter) \cup {None},
          threshold \in Thresholds :
          /\ call' = [solver |-> solver, maxiter |-> maxiter,
                      threshold |-> threshold, outcome |-> "running"]
          /\ pc' = IF solver = "scf" THEN "scf_loop" ELSE "oda_check"
    /\ i' = 0
    /\ converged' = FALSE
    /\ loc' = ZeroLoc(wfn_kind)
    /\ hist' = [NoHist EXCEPT !.dirty = hist.dirty, !.ncalls = hist.ncalls + 1]
    /\ UNCHANGED <<wfn_cache, ham_cache, sys_extra, Fixed>>

\* the exception of "lf.error_eigen(fock, overlap, wfn.exp_alpha)" and of
\* what precedes it, r being the outcome of ham.compute_fock
scf_exception(r) ==
    IF ~r.ok THEN r.exc
    ELSE IF \E s \in Spins(wfn_kind) : ~get_exp(r.wfn, s).ok
    THEN "AttributeError" ELSE ""

\* the rest of the loop body's first half: exc is the exception raised,
\* pass the result of the convergence test
ScfTested(r, exc, pass) ==
    /\ wfn_cache' = r.wfn
    /\ ham_cache' = r.ham
    /\ loc' = IF r.ok THEN [loc EXCEPT !.fock0 = r.val] ELSE loc
    /\ converged' = pass
    /\ pc' = IF exc # "" THEN "done"
             ELSE IF pass THEN "scf_exit" ELSE "scf_update"
    /\ call' = IF exc # "" THEN Ended(exc) ELSE call
    /\ hist' = [Evaluated(hist) EXCEPT !.nbody = @ + 1,
                                       !.npass = IF pass THEN @ + 1 ELSE @]

ScfFock(r, exc) ==
    ScfTested(r, exc,
              exc = "" /\ scf_converged(wfn_kind, r.val, r.wfn, call.threshold))

ScfEntered(r) == ScfFock(r, scf_exception(r))

\* converge_scf_cs / _os, top of the loop body: Fock operator(s) and the
\* convergence test
ScfIterate ==
    /\ pc = "scf_loop"
    /\ LoopGuard(call.maxiter, i)
    /\ call.maxiter = None => i < IterCap
    /\ ScfEntered(ham_compute_fock(ham_terms, wfn_kind, sys_ops, wfn_cache,
                                   ham_cache, ZeroFocks(wfn_kind)))
    /\ UNCHANGED <<sys_extra, i, Fixed>>

\* the wavefunction takes the outcome r of an update; next is the position
\* after it, where is what the update leaves to be cleared
WfnUpdated(r, next, where) ==
    /\ wfn_cache' = r.wfn
    /\ pc' = IF r.ok THEN next ELSE "done"
    /\ call' = IF r.ok THEN call ELSE Ended(r.exc)
    /\ hist' = [hist EXCEPT !.dirty = where]

\* wfn.clear(); wfn.update_exp(fock, overlap)
ScfUpdate ==
    /\ pc = "scf_update"
    /\ WfnUpdated(update_exp(wfn_kind, occ_model, invalidate(wfn_cache), loc.fock0),
                  "scf_clear", "loop")
    /\ UNCHANGED <<ham_cache, sys_extra, i, converged, loc, Fixed>>

\* ham.clear() with its outcome c
HamCleared(c) == ham_cache' = c.cache /\ sys_extra' = c.extra

\* ham.clear(); i += 1
ScfClear ==
    /\ pc = "scf_clear"
    /\ HamCleared(ham_clear(ham_cache, sys_extra))
    /\ i' = i + 1
    /\ pc' = "scf_loop"
    /\ hist' = [hist EXCEPT !.dirty = "clean"]
    /\ UNCHANGED <<wfn_cache, call, converged, loc, Fixed>>

\* after the loop: "if not converged: raise NoSCFConvergence"
ScfEnd ==
    /\ \/ pc = "scf_exit"
       \/ pc = "scf_loop" /\ ~LoopGuard(call.maxiter, i)
    /\ pc' = "done"
    /\ call' = Ended(IF converged THEN "return" ELSE "NoSCFConvergence")
    /\ UNCHANGED <<wfn_cache, ham_cache, sys_extra, i, converged, loc, hist, Fixed>>

\* converge_scf_oda_cs / _os before the loop: an input density matrix, if
\* present, is checked
OdaCheck ==
    /\ pc = "oda_check"
    /\ LET bad == \E s \in Spins(wfn_kind) :
                     /\ Has(wfn_cache, "dm_" \o s)
                     /\ ~check_dm(wfn_cache["dm_" \o s])
       IN  /\ pc' = IF bad THEN "done" ELSE "oda_loop"
           /\ call' = IF bad THEN Ended("ValueError") ELSE call
    /\ UNCHANGED <<wfn_cache, ham_cache, sys_extra, i, converged, loc, hist, Fixed>>

\* fock, then energy, then the density matrices at the current point; the
\* record tells how far the three calls got
point_dms(rf, re, rd) ==
    [exc |-> IF rd.ok THEN "" ELSE rd.exc, wfn |-> rd.wfn, ham |-> re.ham,
     extra |-> re.val.extra, fock |-> rf.val, energy |-> re.val.total,
     dm |-> IF rd.ok THEN rd.val ELSE ZeroFocks(wfn_kind)]

point_energy(rf, re) ==
    IF ~re.ok
    THEN [exc |-> re.exc, wfn |-> re.wfn, ham |-> re.ham, extra |-> re.val.extra,
          fock |-> rf.val, energy |-> QZero, dm |-> ZeroFocks(wfn_kind)]
    ELSE point_dms(rf, re, get_dms(wfn_kind, re.wfn))

point_fock(extra, rf) ==
    IF ~rf.ok
    THEN [exc |-> rf.exc, wfn |-> rf.wfn, ham |-> rf.ham, extra |-> extra,
          fock |-> ZeroFocks(wfn_kind), energy |-> QZero,
          dm |-> ZeroFocks(wfn_kind)]
    ELSE point_energy(rf, ham_compute(ham_terms, wfn_kind, sys_ops, rf.wfn,
                                      rf.ham, extra))

at_point(wc, hc, extra) ==
    point_fock(extra, ham_compute_fock(ham_terms, wfn_kind, sys_ops, wc, hc,
                                       ZeroFocks(wfn_kind)))

\* the solver takes the outcome r of at_point at the point named by which
\* ("0": fock0, energy0, dm0; "1": fock1, energy1, dm1)
PointTaken(r, which, next) ==
    /\ wfn_cache' = r.wfn
    /\ ham_cache' = r.ham
    /\ sys_extra' = r.extra
    /\ loc' = IF which = "0"
              THEN [loc EXCEPT !.fock0 = r.fock, !.energy0 = r.energy, !.dm0 = r.dm]
              ELSE [loc EXCEPT !.fock1 = r.fock, !.energy1 = r.energy, !.dm1 = r.dm]
    /\ pc' = IF r.exc = "" THEN next ELSE "done"
    /\ call' = IF r.exc = "" THEN call ELSE Ended(r.exc)

PointRecorded(r, h) ==
    hist' = IF r.exc = "" THEN Recorded(h, r.energy) ELSE h

PointA(r) ==
    /\ PointTaken(r, "0", "oda_B")
    /\ PointRecorded(r, [Evaluated(hist) EXCEPT !.nbody = @ + 1])

\* A) Fock operator, energy and density matrix at the current point
OdaA ==
    /\ pc = "oda_loop"
    /\ LoopGuard(call.maxiter, i)
    /\ call.maxiter = None => i < IterCap
    /\ PointA(at_point(wfn_cache, ham_cache, sys_extra))
    /\ UNCHANGED <<i, converged, Fixed>>

\* B) wfn.clear(); wfn.update_exp(fock0, overlap)
OdaB ==
    /\ pc = "oda_B"
    /\ WfnUpdated(update_exp(wfn_kind, occ_model, invalidate(wfn_cache), loc.fock0),
                  "oda_Bclear", "loop")
    /\ UNCHANGED <<ham_cache, sys_extra, i, converged, loc, Fixed>>

\* B) ham.clear()
OdaBClear ==
    /\ pc = "oda_Bclear"
    /\ HamCleared(ham_clear(ham_cache, sys_extra))
    /\ pc' = "oda_C"
    /\ hist' = [hist EXCEPT !.dirty = "clean"]
    /\ UNCHANGED <<wfn_cache, call, i, converged, loc, Fixed>>

\* C) Fock operator, energy and density matrix at the new point (lambda=1)
OdaC ==
    /\ pc = "oda_C"
    /\ PointTaken(at_point(wfn_cache, ham_cache, sys_extra), "1", "oda_D")
    /\ hist' = Evaluated(hist)
    /\ UNCHANGED <<i, converged, Fixed>>

\* E) dm2 from the mixing, handed to the wavefunction
Damped(d0, d1, mixing, dm2) ==
    /\ loc' = [loc EXCEPT !.energy0_deriv = d0, !.energy1_deriv = d1,
                          !.mixing = mixing, !.dm2 = dm2]
    /\ wfn_cache' = set_dms(wfn_kind, wfn_cache, dm2)

Mixed(d0, d1, mixing) ==
    Damped(d0, d1, mixing, damped(wfn_kind, loc.dm0, loc.dm1, mixing))

Derived(d0, d1) == Mixed(d0, d1, mixing_of(loc.energy0, loc.energy1, d0, d1))

\* D) the optimal damping and E) the new density matrix, handed to the
\* wavefunction: wfn.clear(); wfn.update_dm(...)
OdaDE ==
    /\ pc = "oda_D"
    /\ Derived(energy_deriv(wfn_kind, loc.fock0, loc.dm0, loc.dm1),
               energy_deriv(wfn_kind, loc.fock1, loc.dm0, loc.dm1))
    /\ pc' = "oda_Eclear"
    /\ hist' = [hist EXCEPT !.dirty = "loop"]
    /\ UNCHANGED <<ham_cache, sys_extra, call, i, converged, Fixed>>

\* "if error < threshold: if abs(energy0_deriv) > threshold: raise
\* RuntimeError; converged = True; break" and "i += 1"
OdaTested(close, steep) ==
    /\ pc' = IF close THEN (IF steep THEN "done" ELSE "oda_final")
             ELSE "oda_loop"
    /\ call' = IF close /\ steep THEN Ended("RuntimeError") ELSE call
    /\ converged' = (close /\ ~steep)
    /\ i' = IF close THEN i ELSE i + 1
    /\ hist' = [hist EXCEPT !.dirty = "clean",
                            !.npass = IF close THEN @ + 1 ELSE @]

\* a gradient test without the absolute value
steep_signed(energy0_deriv, threshold) == QLt(threshold, energy0_deriv)

\* abs(energy0_deriv) > threshold
steep_gradient(energy0_deriv, threshold) == QLt(threshold, QAbs(energy0_deriv))

\* E) ham.clear(), then the distance test with its gradient test, i += 1
OdaEClear ==
    /\ pc = "oda_Eclear"
    /\ HamCleared(ham_clear(ham_cache, sys_extra))
    /\ OdaTested(oda_close(wfn_kind, loc.dm2, loc.dm0, call.threshold),
                 steep_gradient(loc.energy0_deriv, call.threshold))
    /\ UNCHANGED <<wfn_cache, loc, Fixed>>

FinalFocked(rd, rf) ==
    /\ wfn_cache' = rf.wfn
    /\ ham_cache' = rf.ham
    /\ loc' = IF rf.ok THEN [loc EXCEPT !.dm0 = rd.val, !.fock0 = rf.val]
              ELSE [loc EXCEPT !.dm0 = rd.val]
    /\ pc' = IF rf.ok THEN "oda_final_exp" ELSE "done"
    /\ call' = IF rf.ok THEN call ELSE Ended(rf.exc)
    /\ hist' = Evaluated(hist)

FinalDm(rd) ==
    IF ~rd.ok
    THEN /\ wfn_cache' = rd.wfn
         /\ pc' = "done"
         /\ call' = Ended(rd.exc)
         /\ UNCHANGED <<ham_cache, loc, hist>>
    ELSE FinalFocked(rd, ham_compute_fock(ham_terms, wfn_kind, sys_ops, rd.wfn,
                                          ham_cache, ZeroFocks(wfn_kind)))

\* after the loop: dm0.assign(wfn.dm_alpha); ham.compute_fock(fock0, None)
OdaFinalFock ==
    /\ \/ pc = "oda_final"
       \/ pc = "oda_loop" /\ ~LoopGuard(call.maxiter, i)
    /\ FinalDm(get_dms(wfn_kind, wfn_cache))
    /\ UNCHANGED <<sys_extra, i, converged, Fixed>>

\* wfn.clear(); wfn.update_exp(fock0, overlap, dm0)
OdaFinalExp ==
    /\ pc = "oda_final_exp"
    /\ WfnUpdated(update_exp_dm(wfn_kind, invalidate(wfn_cache), loc.fock0, loc.dm0),
                  "oda_final_energy", "final")
    /\ UNCHANGED <<ham_cache, sys_extra, i, converged, loc, Fixed>>

FinalEnergy(r, h) ==
    /\ wfn_cache' = r.wfn
    /\ ham_cache' = r.ham
    /\ sys_extra' = r.val.extra
    /\ loc' = IF r.ok THEN [loc EXCEPT !.energy0 = r.val.total] ELSE loc
    /\ call' = Ended(IF ~r.ok THEN r.exc
                     ELSE IF converged THEN "return"
                     ELSE "NoSCFConvergence")
    /\ hist' = IF r.ok THEN Recorded(h, r.val.total) ELSE h

\* energy0 = ham.compute(); "if not converged: raise NoSCFConvergence"
OdaFinalEnergy ==
    /\ pc = "oda_final_energy"
    /\ FinalEnergy(ham_compute(ham_terms, wfn_kind, sys_ops, wfn_cache,
                               ham_cache, sys_extra),
                   Evaluated(hist))
    /\ pc' = "done"
    /\ UNCHANGED <<i, converged, Fixed>>

Next ==
    \/ StartCall
    \/ ScfIterate
    \/ ScfUpdate
    \/ ScfClear
    \/ ScfEnd
    \/ OdaCheck
    \/ OdaA
    \/ OdaB
    \/ OdaBClear
    \/ OdaC
    \/ OdaDE
    \/ OdaEClear
    \/ OdaFinalFock
    \/ OdaFinalExp
    \/ OdaFinalEnergy

Spec == Init /\ [][Next]_vars

-----------------------------------------------------------------------------
(* find_min_cubic on its own: every input of the range is handed to it.    *)

CubicRange == 4

\* the inputs on which np.sqrt(discriminant) is exact when it is computed
CubicInputs ==
    { in \in [f0 : -CubicRange..CubicRange, f1 : -CubicRange..CubicRange,
              g0 : -CubicRange..CubicRange, g1 : -CubicRange..CubicRange] :
        LET a == CubicA(in.f0, in.f1, in.g0, in.g1)
            b == CubicB(in.f0, in.f1, in.g0, in.g1)
            disc == Discriminant(in.f0, in.f1, in.g0, in.g1)
        IN  (disc >= 0 /\ UseCubic(a, b, in.g0)) => IsSquare(disc) }

\* the parts of the state a specification does not use
NoSolver ==
    /\ pc = "idle"
    /\ call = NoCall
    /\ i = 0
    /\ converged = FALSE
    /\ loc = ZeroLoc("R")

NoSystem ==
    /\ wfn_kind = "R"
    /\ occ_model = [nalpha |-> QI(1), nbeta |-> QI(1)]
    /\ wfn_cache = EmptyCache
    /\ ham_terms = << >>
    /\ ham_cache = EmptyCache
    /\ sys_extra = EmptyCache
    /\ sys_ops = [kin |-> ZeroVec, na |-> ZeroVec, er |-> Mat(0, 0, 0), nn |-> 0]

InitCubic ==
    /\ \E in \in CubicInputs :
          cubic = [phase |-> "input", f0 |-> in.f0, f1 |-> in.f1,
                   g0 |-> in.g0, g1 |-> in.g1, x |-> QZero, log |-> << >>]
    /\ NoSystem
    /\ NoSolver
    /\ hist = NoHist

\* mixing = find_min_cubic(f0, f1, g0, g1)
CubicCall ==
    /\ cubic.phase = "input"
    /\ cubic' = [cubic EXCEPT !.phase = "done",
                              !.x = find_min_cubic(cubic.f0, cubic.f1,
                                                   cubic.g0, cubic.g1),
                              !.log = find_min_cubic_log(cubic.f0, cubic.f1,
                                                         cubic.g0, cubic.g1)]
    /\ UNCHANGED <<wfn_kind, occ_model, wfn_cache, ham_terms, ham_cache,
                   sys_extra, sys_ops, pc, call, i, converged, loc, hist>>

NextCubic == CubicCall

SpecCubic == InitCubic /\ [][NextCubic]_vars

\* sample points of [0,1]
Grid == {Q(k, 4) : k \in 0..4}

CubicAt(y) == CubicValue(cubic.f0, cubic.f1, cubic.g0, cubic.g1, y)

\* C10: for all inputs find_min_cubic returns the minimiser on [0,1] of the
\* cubic p with p(0)=f0, p(1)=f1, p'(0)=g0, p'(1)=g1: the x returned lies in
\* [0,1] and p(x) <= p(y) for every y of [0,1], here the sample points,
\* which include the two ends
C10_MinimiserOnUnitInterval ==
    cubic.phase = "done" =>
        /\ InUnit(cubic.x)
        /\ \A y \in Grid : QLe(CubicAt(cubic.x), CubicAt(y))

-----------------------------------------------------------------------------
(* The Hamiltonian under a caller that computes, clears and updates the    *)
(* wavefunction in any order.                                              *)

MaxOps == 4       \* calls the caller makes in one run

\* Hamiltonian(system, cache, terms, idiot_proof=False) with two
\* CustomLinearObservable of one label
SameLabelTerms ==
    << [type |-> "linear", label |-> "x", op |-> "kin"],
       [type |-> "linear", label |-> "x", op |-> "na"],
       [type |-> "direct", label |-> "hartree", op |-> "er"] >>

HamSystems == {ops \in Systems : ops.er[1][1] = 2 /\ ops.er[2][2] = 2}

\* what the caller has seen: the calls made; the number of compute() calls
\* that returned, the total and the system.extra the last one left, and
\* those of the one before it; what happened since the last one returned
\* ("none", "clear", "wfn", or both: "clear+wfn") and what had happened
\* between the last two; the number of compute_fock() calls that returned
\* one after the other on Fock operators the caller did not zero in
\* between, and the content of the operators before the first of them
NoCalls ==
    [nops |-> 0, ncompute |-> 0, total |-> QZero, extra |-> EmptyCache,
     prevTotal |-> QZero, prevExtra |-> EmptyCache,
     since |-> "none", between |-> "none", last |-> "none",
     nfock |-> 0, fockIn |-> ZeroFocks("R"), calls |-> << >>]

InitHam ==
    /\ \E w \in Wavefunctions, ops \in HamSystems :
          /\ wfn_kind = w.kind
          /\ occ_model = w.occ
          /\ sys_ops = ops
          /\ wfn_cache \in {guess_hamiltonian_core(w.kind, w.occ, ops), EmptyCache}
    /\ ham_terms \in {HartreeFockTerms, SameLabelTerms}
    /\ ham_cache = EmptyCache
    /\ sys_extra = EmptyCache
    /\ pc = "idle"
    /\ call = NoCall
    /\ i = 0
    /\ converged = FALSE
    /\ loc = ZeroLoc(wfn_kind)
    /\ hist = [NoCalls EXCEPT !.fockIn = ZeroFocks(wfn_kind)]
    /\ cubic = NoCubic

NotUsed == <<wfn_kind, occ_model, ham_terms, sys_ops, pc, call, i, converged,
             loc, cubic>>

After(h, what) ==
    [h EXCEPT !.nops = @ + 1, !.last = what, !.nfock = 0,
              !.since = IF what \in {"clear", "wfn"}
                        THEN (IF @ \in {"none", what} THEN what ELSE "clear+wfn")
                        ELSE @]

\* the caller's view after ham.compute() gave r
Computed(r) ==
    /\ wfn_cache' = r.wfn
    /\ ham_cache' = r.ham
    /\ sys_extra' = r.val.extra
    /\ hist' = IF r.ok
               THEN [hist EXCEPT !.nops = @ + 1, !.last = "compute",
                                 !.nfock = 0,
                                 !.ncompute = IF @ = 0 THEN 1 ELSE 2,
                                 !.total = r.val.total,
                                 !.extra = r.val.extra,
                                 !.prevTotal = hist.total,
                                 !.prevExtra = hist.extra,
                                 !.since = "none",
                                 !.between = hist.since]
               ELSE After(hist, "wfn")

\* energy = ham.compute()
HamCompute ==
    /\ hist.nops < MaxOps
    /\ Computed(ham_compute(ham_terms, wfn_kind, sys_ops, wfn_cache, ham_cache,
                            sys_extra))
    /\ UNCHANGED NotUsed

\* the caller's view after ham.compute_fock gave r on operators that held
\* focks; zeroed tells whether the caller had cleared them for this call
Focked(r, focks, zeroed) ==
    /\ wfn_cache' = r.wfn
    /\ ham_cache' = r.ham
    /\ loc' = [loc EXCEPT !.fock0 = r.val]
    /\ hist' = IF r.ok
               THEN [After(hist, "fock") EXCEPT
                        !.calls = compute_fock_calls(ham_terms, wfn_kind, r.ham),
                        !.nfock = IF zeroed THEN 1 ELSE hist.nfock + 1,
                        !.fockIn = IF zeroed \/ hist.nfock = 0
                                   THEN focks ELSE hist.fockIn]
               ELSE After(hist, "wfn")

FockInto(focks, zeroed) ==
    Focked(ham_compute_fock(ham_terms, wfn_kind, sys_ops, wfn_cache,
                            ham_cache, focks), focks, zeroed)

\* ham.compute_fock(fock_alpha, fock_beta) on the caller's operators, after
\* fock.clear() or as the previous calls left them
HamComputeFock ==
    /\ hist.nops < MaxOps
    /\ \E zeroed \in BOOLEAN :
          FockInto(IF zeroed THEN ZeroFocks(wfn_kind) ELSE loc.fock0, zeroed)
    /\ UNCHANGED <<sys_extra, wfn_kind, occ_model, ham_terms, sys_ops, pc,
                   call, i, converged, cubic>>

\* ham.clear()
HamClear ==
    /\ hist.nops < MaxOps
    /\ HamCleared(ham_clear(ham_cache, sys_extra))
    /\ hist' = After(hist, "clear")
    /\ UNCHANGED <<wfn_cache, NotUsed>>

\* wfn.clear(); wfn.update_dm('alpha', dm) (; wfn.update_dm('beta', dm))
WfnUpdateDm ==
    /\ hist.nops < MaxOps
    /\ \E dm \in {Vec(0, 1), Vec(1, 0)} :
          wfn_cache' = set_dms(wfn_kind, wfn_cache, [s \in Channels |-> dm])
    /\ hist' = After(hist, "wfn")
    /\ UNCHANGED <<ham_cache, sys_extra, NotUsed>>

\* wfn.clear(); wfn.update_exp(fock, overlap)
WfnUpdateExp ==
    /\ hist.nops < MaxOps
    /\ \E fock \in {Vec(0, 1), Vec(1, 0)} :
          wfn_cache' = update_exp(wfn_kind, occ_model, invalidate(wfn_cache),
                                  [s \in Spins(wfn_kind) |-> fock]).wfn
    /\ hist' = After(hist, "wfn")
    /\ UNCHANGED <<ham_cache, sys_extra, NotUsed>>

NextHam ==
    \/ HamCompute
    \/ HamComputeFock
    \/ HamClear
    \/ WfnUpdateDm
    \/ WfnUpdateExp

SpecHam == InitHam /\ [][NextHam]_vars

-----------------------------------------------------------------------------
(* Properties of the Hamiltonian (SpecHam).                                *)

\* C2: calling compute twice with no clear() and no change of the
\* wavefunction in between returns the identical total and records
\* identical per-term energies
C2_RepeatedComputeIdentical ==
    (hist.last = "compute" /\ hist.ncompute = 2 /\ hist.between = "none") =>
        /\ hist.total = hist.prevTotal
        /\ hist.extra = hist.prevExtra
        /\ sys_extra = hist.prevExtra

\* two-body operators are in the cache and the energy is not zero when the
\* second of two successive compute calls returns
C2_Witness ==
    /\ hist.last = "compute" /\ hist.ncompute = 2 /\ hist.between = "none"
    /\ Has(ham_cache, "op_hartree_alpha") /\ Has(ham_cache, "op_exchange_hartree_fock_alpha")
    /\ hist.total # QZero
    /\ sys_extra["energy_hartree"] # QZero

DistinctLabels(terms) ==
    \A m, n \in 1..Len(terms) : m # n => terms[m].label # terms[n].label

\* the energy of term n in the current state
TermEnergy(n) ==
    term_compute(ham_terms[n], wfn_kind, sys_ops, wfn_cache, ham_cache).val

RECURSIVE TermEnergies(_)
TermEnergies(n) ==
    IF n = 0 THEN QZero ELSE QAdd(TermEnergies(n - 1), TermEnergy(n))

RECURSIVE RecordedEnergies(_)
RecordedEnergies(n) ==
    IF n = 0 THEN QZero
    ELSE QAdd(RecordedEnergies(n - 1), sys_extra["energy_" \o ham_terms[n].label])

\* C3: compute returns the sum of every term's energy plus the nuclear
\* repulsion, records the total under energy, the nuclear term under
\* energy_nn and each term's value under energy_<label> (the last term of a
\* label when two share it); for pairwise distinct labels the recorded
\* energy is the sum of the recorded energy_<label> entries plus energy_nn
C3_ComputeSumsAndRecords ==
    hist.last = "compute" =>
        /\ hist.total = QAdd(TermEnergies(Len(ham_terms)), QI(sys_ops.nn))
        /\ sys_extra["energy"] = hist.total
        /\ sys_extra["energy_nn"] = QI(sys_ops.nn)
        /\ \A n \in 1..Len(ham_terms) :
              (\A m \in (n + 1)..Len(ham_terms) :
                    ham_terms[m].label # ham_terms[n].label)
              => sys_extra["energy_" \o ham_terms[n].label] = TermEnergy(n)
        /\ DistinctLabels(ham_terms) =>
              sys_extra["energy"] =
                  QAdd(RecordedEnergies(Len(ham_terms)), sys_extra["energy_nn"])

\* compute returned for a Hamiltonian of distinct labels, none of whose
\* recorded energies is zero
C3_Witness ==
    /\ hist.last = "compute"
    /\ DistinctLabels(ham_terms)
    /\ \A n \in 1..Len(ham_terms) :
          sys_extra["energy_" \o ham_terms[n].label] # QZero
    /\ sys_extra["energy"] # QI(sys_ops.nn)

EnergyKeys ==
    {"energy", "energy_nn"} \cup
    {"energy_" \o ham_terms[n].label : n \in 1..Len(ham_terms)}

-----------------------------------------------------------------------------
(* Properties of the solvers (Spec).                                       *)

Finished(solver, outcome) ==
    pc = "done" /\ call.solver = solver /\ call.outcome = outcome

\* C1 as stated: in every solver, the finalisation after the ODA loop
\* included, each update of the wavefunction (update_exp, update_dm) is
\* followed by ham.clear() before the next ham.compute() or
\* ham.compute_fock()
C1_ClearAfterEveryUpdate == ~hist.useLoop /\ ~hist.useFinal

\* C1 amended: each update of the wavefunction inside a solver loop is
\* followed by ham.clear() before the next ham.compute() or
\* ham.compute_fock(); the update_exp(fock0, overlap, dm0) of the ODA
\* finalisation is not, and the ham.compute() after it (and the first
\* compute_fock of a later call) reads the operators cached before it; they
\* are those of the density matrices the wavefunction holds, which that
\* update does not change, so no evaluation ever uses a stale operator
C1_ClearAfterLoopUpdates ==
    /\ ~hist.useLoop
    /\ ~hist.stale
    /\ hist.dirty = "final" =>
          Coherent(ham_terms, wfn_kind, sys_ops, wfn_cache, ham_cache)

\* the ODA finalisation has evaluated the energy after its update_exp,
\* with operators in the cache and no clear() in between
C1_Witness ==
    /\ Finished("oda", "NoSCFConvergence")
    /\ hist.useFinal
    /\ hist.dirty = "final"
    /\ i >= 1
    /\ Has(ham_cache, "op_hartree_alpha") \/ Has(ham_cache, "op_hartree")

\* the calls made on a wavefunction the solver can work with
ValidCall == call.outcome \notin {"AttributeError", "ValueError"}

C6_ReturnedBelowThreshold ==
    /\ Finished("scf", "return") =>
          Below(convergence_error2(wfn_kind, ham_terms, sys_ops, wfn_cache,
                                   ham_cache), call.threshold)
    /\ pc \in {"scf_exit", "scf_update"} =>
          (converged <=>
             Below(errors_of(wfn_kind, [val |-> loc.fock0, wfn |-> wfn_cache]),
                   call.threshold))

\* an unrestricted plain SCF call returns after at least one update of the
\* orbitals
C6_Witness ==
    /\ Finished("scf", "return")
    /\ wfn_kind = "U"
    /\ i >= 1

\* C7: when converge_scf_oda raises NoSCFConvergence the wavefunction holds,
\* for every spin channel, the last damped density matrix and an expansion
\* derived from it (its density matrix is that matrix), so that a later
\* converge_scf_oda call passes check_dm and evaluates its first point
C7_InterruptedOdaLeavesWfn ==
    Finished("oda", "NoSCFConvergence") =>
        /\ \A s \in Spins(wfn_kind) :
              /\ Has(wfn_cache, "exp_" \o s)
              /\ Has(wfn_cache, "dm_" \o s)
              /\ i >= 1 => wfn_cache["dm_" \o s] = loc.dm2[s]
              /\ compute_density_matrix(wfn_cache["exp_" \o s])
                    = wfn_cache["dm_" \o s]
              /\ check_dm(wfn_cache["dm_" \o s])
        /\ at_point(wfn_cache, ham_cache, sys_extra).exc = ""

\* an ODA call is interrupted after a damping step that left fractional
\* occupations
C7_Witness ==
    /\ Finished("oda", "NoSCFConvergence")
    /\ i >= 1
    /\ \E a \in Basis : wfn_cache["dm_alpha"][a] \notin {QZero, QOne}

C9_GradientFailureIsRuntimeError ==
    /\ Finished("oda", "RuntimeError") =>
          /\ \A s \in Spins(wfn_kind) :
                Below(distance2(loc.dm2[s], loc.dm0[s]), call.threshold)
          /\ QLt(call.threshold, QAbs(loc.energy0_deriv))
          /\ ~converged
    /\ pc = "oda_final" =>
          /\ \A s \in Spins(wfn_kind) :
                Below(distance2(loc.dm2[s], loc.dm0[s]), call.threshold)
          /\ QLe(QAbs(loc.energy0_deriv), call.threshold)
          /\ converged
    /\ (pc = "oda_loop" /\ i >= 1) =>
          \E s \in Spins(wfn_kind) :
              ~Below(distance2(loc.dm2[s], loc.dm0[s]), call.threshold)
    /\ Finished("oda", "return") =>
          QLe(QAbs(loc.energy0_deriv), call.threshold)
    /\ Finished("oda", "NoSCFConvergence") => hist.npass = 0

\* the ODA solver stops with RuntimeError on a steep negative gradient
C9_Witness ==
    /\ Finished("oda", "RuntimeError")
    /\ QLt(loc.energy0_deriv, QZero)

-----------------------------------------------------------------------------
(* Further properties of find_min_cubic (SpecCubic).                       *)

\* the stationary points of a*x**3 + b*x**2 + c*x + d, for coefficients
\* whose discriminant b*b - 3*a*c is a perfect square
StationaryPoints(a, b, c) ==
    IF b * b - 3 * a * c < 0 THEN {}
    ELSE IF a # 0
    THEN {Q(-b + Sqrt(b * b - 3 * a * c), 3 * a),
          Q(-b - Sqrt(b * b - 3 * a * c), 3 * a)}
    ELSE IF b # 0 THEN {Q(-c, 2 * b)}
    ELSE IF c # 0 THEN {}
    ELSE Grid

\* the stationary points in [0,1] with positive curvature
AdmissibleRoots(a, b, c) ==
    {x \in StationaryPoints(a, b, c) :
        /\ QLe(QZero, x) /\ QLe(x, QOne)
        /\ QLt(QZero, QAdd(QMul(QI(6 * a), x), QI(2 * b)))}

CubicRoots ==
    AdmissibleRoots(CubicA(cubic.f0, cubic.f1, cubic.g0, cubic.g1),
                    CubicB(cubic.f0, cubic.f1, cubic.g0, cubic.g1),
                    cubic.g0)

CubicC == cubic.g0
CubicCoeffA == CubicA(cubic.f0, cubic.f1, cubic.g0, cubic.g1)
CubicCoeffB == CubicB(cubic.f0, cubic.f1, cubic.g0, cubic.g1)
QuadraticTaken == "quadratic" \in {cubic.log[k] : k \in DOMAIN cubic.log}

\* C12 as stated: find_min_cubic takes the quadratic fallback x = -c/(2b),
\* returned when it lies in [0,1], exactly when the discriminant is
\* non-negative, b*b is the small one of b*b and |3ac|, and b > 0
C12_QuadraticWhenBSmall ==
    cubic.phase = "done" =>
        /\ QuadraticTaken <=>
              /\ CubicCoeffB * CubicCoeffB - 3 * CubicCoeffA * CubicC >= 0
              /\ CubicCoeffB * CubicCoeffB < Abs(3 * CubicCoeffA * CubicC)
              /\ CubicCoeffB > 0
        /\ (QuadraticTaken /\ InUnit(Q(-CubicC, 2 * CubicCoeffB))) =>
              cubic.x = Q(-CubicC, 2 * CubicCoeffB)

\* C12 amended: find_min_cubic takes the quadratic fallback exactly when the
\* discriminant is non-negative, the cubic test b*b < |3ac|*1e5 fails (the
\* cubic term is the negligible one: |3ac| is at most 1e-5 of b*b) and
\* b > 0; it then returns x = -c/(2b) when that lies in [0,1] and the lower
\* boundary otherwise
C12_QuadraticWhenCubicNegligible ==
    cubic.phase = "done" =>
        /\ QuadraticTaken <=>
              /\ CubicCoeffB * CubicCoeffB - 3 * CubicCoeffA * CubicC >= 0
              /\ CubicCoeffB * CubicCoeffB >=
                    Abs(3 * CubicCoeffA * CubicC) * 100000
              /\ CubicCoeffB > 0
        /\ QuadraticTaken =>
              cubic.x = IF InUnit(Q(-CubicC, 2 * CubicCoeffB))
                        THEN Q(-CubicC, 2 * CubicCoeffB)
                        ELSE IF cubic.f0 < cubic.f1 THEN QZero ELSE QOne

\* the quadratic fallback returned a vertex strictly inside the interval
C12_Witness ==
    /\ cubic.phase = "done"
    /\ cubic.log = <<"quadratic">>
    /\ QLt(QZero, cubic.x)
    /\ QLt(cubic.x, QOne)

-----------------------------------------------------------------------------
(* Further properties of the Hamiltonian (SpecHam).                        *)

\* the Fock contribution of the Hamiltonian in the current state: what
\* compute_fock adds to zeroed operators
FockNow ==
    ham_compute_fock(ham_terms, wfn_kind, sys_ops, wfn_cache, ham_cache,
                     ZeroFocks(wfn_kind))

\* the contribution of the current density matrices computed afresh
FockAfresh ==
    ham_compute_fock(ham_terms, wfn_kind, sys_ops, wfn_cache, EmptyCache,
                     ZeroFocks(wfn_kind))

Times(n, v) == [a \in Basis |-> QMul(QI(n), v[a])]

\* C13: compute_fock and every term's add_fock only add to the caller's
\* Fock operators: with content X before, the content afterwards is X plus
\* the Fock contribution of the density matrix (the current one whenever
\* the Hamiltonian was cleared after the last update of the wavefunction),
\* and n consecutive calls on operators that are not zeroed in between
\* leave X plus n times the contribution
C13_ComputeFockAccumulates ==
    hist.nfock >= 1 =>
        /\ FockNow.ok
        /\ \A s \in Spins(wfn_kind) :
              loc.fock0[s] = VAdd(hist.fockIn[s], Times(hist.nfock, FockNow.val[s]))
        /\ Coherent(ham_terms, wfn_kind, sys_ops, wfn_cache, ham_cache) =>
              FockNow.val = FockAfresh.val

\* two consecutive calls on operators that held a non-zero X
C13_Witness ==
    /\ hist.nfock = 2
    /\ \E s \in Spins(wfn_kind), a \in Basis : hist.fockIn[s][a] # QZero
    /\ \E s \in Spins(wfn_kind), a \in Basis : FockNow.val[s][a] # QZero

-----------------------------------------------------------------------------
(* compute_fock of Hamiltonians with grid terms.                           *)

\* term lists with no, one and several grid terms
GridTermLists ==
    { << [type |-> "grid", label |-> "x_dirac", op |-> "lda"] >>,
      << [type |-> "grid", label |-> "libxc_gga_x", op |-> "gga"],
         [type |-> "linear", label |-> "kin", op |-> "kin"] >>,
      << [type |-> "linear", label |-> "kin", op |-> "kin"],
         [type |-> "grid", label |-> "x_dirac", op |-> "lda"],
         [type |-> "direct", label |-> "hartree", op |-> "er"],
         [type |-> "grid", label |-> "libxc_gga_c", op |-> "gga"],
         [type |-> "grid", label |-> "libxc_gga_x", op |-> "gga"] >>,
      HartreeFockTerms }

InitGrid ==
    /\ \E w \in Wavefunctions, ops \in HamSystems :
          /\ wfn_kind = w.kind
          /\ occ_model = w.occ
          /\ sys_ops = ops
          /\ wfn_cache \in {guess_hamiltonian_core(w.kind, w.occ, ops), EmptyCache}
    /\ ham_terms \in GridTermLists
    /\ ham_cache = EmptyCache
    /\ sys_extra = EmptyCache
    /\ pc = "idle"
    /\ call = NoCall
    /\ i = 0
    /\ converged = FALSE
    /\ loc = ZeroLoc(wfn_kind)
    /\ hist = [NoCalls EXCEPT !.fockIn = ZeroFocks(wfn_kind)]
    /\ cubic = NoCubic

NextGrid ==
    \/ HamComputeFock
    \/ HamClear
    \/ WfnUpdateDm

SpecGrid == InitGrid /\ [][NextGrid]_vars

Calls == hist.calls
IsTransformation(c) ==
    c[1] \in {"compute_grid_density_fock", "compute_grid_gradient_fock"}

\* C14: within one compute_fock call every term's add_fock_matrix call
\* comes before any grid-to-Fock transformation; each potential kind is
\* transformed at most once per spin channel, whatever the number of grid
\* terms, the density potential before the gradient potential; beta
\* transformations are made only for an unrestricted wavefunction
C14_GridTransformationsOncePerKind ==
    hist.last = "fock" =>
        /\ Len(Calls) >= Len(ham_terms)
        /\ \A n \in 1..Len(Calls) :
              IsTransformation(Calls[n]) <=> n > Len(ham_terms)
        /\ \A m, n \in 1..Len(Calls) :
              (m # n /\ IsTransformation(Calls[m])) => Calls[m] # Calls[n]
        /\ \A m, n \in 1..Len(Calls) :
              /\ Calls[m] = <<"compute_grid_gradient_fock", Calls[n][2]>>
              /\ Calls[n][1] = "compute_grid_density_fock"
              => n < m
        /\ \A n \in 1..Len(Calls) :
              (IsTransformation(Calls[n]) /\ Calls[n][2] = "beta")
                  => wfn_kind = "U"
        /\ \A n \in 1..Len(Calls) :
              IsTransformation(Calls[n]) =>
                  Has(ham_cache, (IF Calls[n][1] = "compute_grid_density_fock"
                                  THEN "dpot_total_" ELSE "gpot_total_")
                                 \o Calls[n][2])

\* three grid terms, two of them with a gradient potential, and four
\* transformations for the two spin channels
C14_Witness ==
    /\ hist.last = "fock"
    /\ Len(ham_terms) = 5
    /\ wfn_kind = "U"
    /\ Len(Calls) = Len(ham_terms) + 4

-----------------------------------------------------------------------------
(* The cached operators of the two-body terms (SpecHam).                   *)

\* the cache entries of the direct and exchange terms of a wavefunction
TermKeys(t, kind) ==
    IF t.type = "direct"
    THEN {IF kind = "R" THEN "op_" \o t.label \o "_alpha" ELSE "op_" \o t.label}
    ELSE IF t.type = "exchange"
    THEN {"op_" \o t.label \o "_" \o s : s \in Spins(kind)}
    ELSE {}

OperatorKeys ==
    UNION {TermKeys(ham_terms[n], wfn_kind) : n \in 1..Len(ham_terms)}

\* an operator entry is contracted in this step: it was absent and is there
Contracted(k) == ~Has(ham_cache, k) /\ Has(ham_cache', k)

\* C15: over any sequence of compute, compute_fock, clear and wavefunction
\* updates a direct or exchange term contracts its operator only when the
\* entry is absent from the cache: the entry appears at the first use after
\* a clear() (or after creation), and until the next clear() it is never
\* contracted again, so it keeps its value whatever happens to the
\* wavefunction; only clear() removes it, and a compute or compute_fock
\* that returns leaves every such entry in the cache
C15_ContractedOnlyWhenAbsent ==
    [][ /\ \A k \in OperatorKeys :
              /\ (Has(ham_cache, k) /\ Has(ham_cache', k))
                    => ham_cache'[k] = ham_cache[k]
              /\ Contracted(k) => hist'.last \in {"compute", "fock", "wfn"}
              /\ (Has(ham_cache, k) /\ ~Has(ham_cache', k))
                    => hist'.last = "clear"
        /\ hist'.last \in {"compute", "fock"} =>
              \A k \in OperatorKeys : Has(ham_cache', k)
      ]_vars

\* compute() has just used an operator contracted before the wavefunction
\* was updated: the entry was present, so it was not contracted again
C15_Witness ==
    /\ hist.last = "compute"
    /\ hist.ncompute = 2
    /\ hist.between = "wfn"
    /\ \E k \in OperatorKeys :
          Has(ham_cache, k) /\ ham_cache[k] # FockAfresh.ham[k]

-----------------------------------------------------------------------------
(* The constructor of the Hamiltonian (src/hamiltonian.py 36-105).         *)

MaxTerms == 3     \* length of the term list handed to the constructor

\* the term classes the callers use: the classes it is an instance of, its
\* exchange and require_grid attributes, and the kind of its contribution
Term(classes, exchange, require_grid, type, label, op) ==
    [classes |-> classes, exchange |-> exchange, require_grid |-> require_grid,
     type |-> type, label |-> label, op |-> op]

KineticEnergy == Term({"KineticEnergy"}, FALSE, FALSE, "linear", "kin", "kin")
Hartree == Term({"Hartree"}, FALSE, FALSE, "direct", "hartree", "er")
ExternalPotential ==
    Term({"ExternalPotential"}, FALSE, FALSE, "linear", "ne", "na")
HartreeFockExchange ==
    Term({"HartreeFockExchange"}, TRUE, FALSE,
         "exchange", "exchange_hartree_fock", "er")
\* "HartreeFock, which is a subclass of Hartree"
HartreeFock ==
    Term({"HartreeFock", "Hartree"}, TRUE, FALSE, "direct", "hartree_fock", "er")
DiracExchange == Term({"DiracExchange"}, TRUE, TRUE, "grid", "x_dirac", "lda")
LibXCLDA == Term({"LibXCLDA"}, FALSE, TRUE, "grid", "libxc_lda_c_vwn", "lda")

TermClasses ==
    {KineticEnergy, Hartree, ExternalPotential, HartreeFockExchange,
     HartreeFock, DiracExchange, LibXCLDA}

BeckeMolGrid == 1
Grids == {None, BeckeMolGrid}

isinstance(term, class) == class \in term.classes

\* sum(isinstance(term, class) for term in terms)
count(terms, class) ==
    Cardinality({n \in 1..Len(terms) : isinstance(terms[n], class)})

\* the grid is looked for in the first term only
grid_missing_first(terms, grid) == terms[1].require_grid /\ grid = None

\* lines 60-62: some term requires a grid and none is given
grid_missing(terms, grid) ==
    \E n \in 1..Len(terms) : terms[n].require_grid /\ grid = None

\* the exchange check passes on every list
exchange_never_missing(self_terms) == FALSE

\* line 71: not any(term.exchange for term in self.terms)
exchange_missing(self_terms) ==
    ~ \E n \in 1..Len(self_terms) : self_terms[n].exchange

\* the standard term is appended whatever the caller gave
add_always(self_terms, terms, class, new) == Append(self_terms, new)

\* lines 75-89: the standard term is appended to self.terms when the
\* terms of the caller hold no instance of its class
add_missing(self_terms, terms, class, new) ==
    IF count(terms, class) = 0 THEN Append(self_terms, new) ELSE self_terms

\* lines 73-89
add_standard_terms(terms) ==
    LET t1 == add_missing(terms, terms, "KineticEnergy", KineticEnergy)
        t2 == add_missing(t1, terms, "Hartree", Hartree)
    IN  add_missing(t2, terms, "ExternalPotential", ExternalPotential)

\* the constructor failed: no Hamiltonian, no term was bound
init_raises(e) == [outcome |-> e, terms |-> << >>, bound |-> << >>]

\* Hamiltonian(system, scf_cache, terms, grid, idiot_proof): the outcome,
\* self.terms and the terms set_hamiltonian was called on, in order
Hamiltonian_init(terms, grid, idiot_proof) ==
    IF Len(terms) = 0 THEN init_raises("ValueError")
    ELSE IF grid_missing(terms, grid) THEN init_raises("TypeError")
    ELSE IF idiot_proof /\ exchange_missing(terms) THEN init_raises("ValueError")
    ELSE LET self_terms == IF idiot_proof THEN add_standard_terms(terms)
                           ELSE terms
         IN  [outcome |-> "ok", terms |-> self_terms, bound |-> self_terms]

\* the term lists of at most MaxTerms terms
TermLists == UNION {[1..n -> TermClasses] : n \in 0..MaxTerms}

\* call holds the arguments of the constructor and, once it has run, its
\* outcome; hist holds the terms bound by set_hamiltonian and the number
\* of add_term calls
InitNew ==
    /\ \E terms \in TermLists, grid \in Grids :
          call = [solver |-> "Hamiltonian", terms |-> terms, grid |-> grid,
                  idiot_proof |-> FALSE, outcome |-> ""]
    /\ pc = "new"
    /\ hist = [bound |-> << >>, nadded |-> 0]
    /\ NoSystem
    /\ i = 0
    /\ converged = FALSE
    /\ loc = ZeroLoc("R")
    /\ cubic = NoCubic

\* ham = Hamiltonian(system, scf_cache, terms, grid, idiot_proof)
HamNew ==
    /\ pc = "new"
    /\ \E idiot_proof \in BOOLEAN :
          LET r == Hamiltonian_init(call.terms, call.grid, idiot_proof)
          IN  /\ call' = [call EXCEPT !.idiot_proof = idiot_proof,
                                      !.outcome = r.outcome]
              /\ ham_terms' = r.terms
              /\ hist' = [hist EXCEPT !.bound = r.bound]
              /\ pc' = IF r.outcome = "ok" THEN "constructed" ELSE "raised"
    /\ UNCHANGED <<wfn_kind, occ_model, wfn_cache, ham_cache, sys_extra,
                   sys_ops, i, converged, loc, cubic>>

\* ham.add_term(term), lines 102-105
HamAddTerm ==
    /\ pc = "constructed"
    /\ hist.nadded = 0
    /\ \E term \in TermClasses :
          /\ ham_terms' = Append(ham_terms, term)
          /\ hist' = [bound |-> Append(hist.bound, term), nadded |-> 1]
    /\ UNCHANGED <<wfn_kind, occ_model, wfn_cache, ham_cache, sys_extra,
                   sys_ops, pc, call, i, converged, loc, cubic>>

NextNew ==
    \/ HamNew
    \/ HamAddTerm

SpecNew == InitNew /\ [][NextNew]_vars

\* the constructor has run; it raised e
Constructed == pc \in {"constructed", "raised"} /\ hist.nadded = 0
NewRaised(e) == pc = "raised" /\ call.outcome = e

\* C16: a Hamiltonian constructed with an empty term list raises ValueError
\* and one constructed with a term that requires a grid while grid is None
\* raises TypeError; either way the constructor itself fails: no
\* Hamiltonian exists afterwards on which compute or compute_fock could be
\* called, and set_hamiltonian was called on no term
C16_ConfigurationErrorsAtConstruction ==
    Constructed =>
        /\ Len(call.terms) = 0 => NewRaised("ValueError")
        /\ (\E n \in 1..Len(call.terms) :
               call.terms[n].require_grid /\ call.grid = None)
             => NewRaised("TypeError")
        /\ pc = "raised" => ham_terms = << >> /\ hist.bound = << >>
        /\ pc = "constructed" =>
             /\ Len(ham_terms) > 0
             /\ hist.bound = ham_terms
             /\ \A n \in 1..Len(ham_terms) :
                   ham_terms[n].require_grid => call.grid # None

C16_Witness ==
    /\ NewRaised("TypeError")
    /\ call.idiot_proof
    /\ Len(call.terms) = MaxTerms
    /\ call.terms[MaxTerms].require_grid
    /\ ~ call.terms[1].require_grid

\* the term list of the caller holds no term flagged as exchange
NoExchangeGiven ==
    \A n \in 1..Len(call.terms) : ~ call.terms[n].exchange

\* the term list of the caller passes the checks of lines 57-62
ArgumentsPass ==
    /\ Len(call.terms) > 0
    /\ \A n \in 1..Len(call.terms) :
          call.terms[n].require_grid => call.grid # None

StandardClasses == <<"KineticEnergy", "Hartree", "ExternalPotential">>
StandardTerms == <<KineticEnergy, Hartree, ExternalPotential>>

\* the standard terms of which the caller gave no instance, in the order
\* kinetic, Hartree, external potential
MissingFrom(n) ==
    LET RECURSIVE missing(_)
        missing(k) ==
            IF k > 3 THEN << >>
            ELSE IF \E m \in 1..Len(call.terms) :
                       StandardClasses[k] \in call.terms[m].classes
                 THEN missing(k + 1)
                 ELSE <<StandardTerms[k]>> \o missing(k + 1)
    IN  missing(n)

Supplied(terms, k) ==
    Cardinality({m \in 1..Len(terms) : StandardClasses[k] \in terms[m].classes})

\* C18: after a successful construction with idiot_proof=True the term
\* list is the list of the caller followed by the missing standard terms
\* in the order kinetic, Hartree, external potential, and the number of
\* terms of each standard kind is max(1, number the caller supplied);
\* with idiot_proof=False the term list is the list of the caller
C18_TermListCompleted ==
    (Constructed /\ pc = "constructed") =>
        IF call.idiot_proof
        THEN /\ ham_terms = call.terms \o MissingFrom(1)
             /\ \A k \in 1..3 :
                   Supplied(ham_terms, k) =
                       IF Supplied(call.terms, k) = 0 THEN 1
                       ELSE Supplied(call.terms, k)
        ELSE ham_terms = call.terms

\* the caller gave two Hartree terms between other terms
C18_Witness ==
    /\ Constructed /\ pc = "constructed"
    /\ call.idiot_proof
    /\ Supplied(call.terms, 2) = 2
    /\ Len(call.terms) = 3
    /\ call.terms[2] = DiracExchange
    /\ ham_terms = call.terms \o <<KineticEnergy, ExternalPotential>>

-----------------------------------------------------------------------------
(* The occupation models on expansions of any length (src/wfn.py 565-660). *)

MaxFn == 2        \* orbitals of one expansion

\* occupations[lo:hi] = value
set_slice(occupations, lo, hi, value) ==
    [k \in 1..Len(occupations) |->
        IF lo < k /\ k <= hi THEN value ELSE occupations[k]]

\* the tail is left as it was
assign_occupations_head(occupations, nocc) ==
    set_slice(occupations, 0, nocc[1] \div nocc[2], QOne)

\* lines 610-615 of AufbauOccModel.assign
assign_occupations(occupations, nocc) ==
    LET nfn == Len(occupations)
        floor == nocc[1] \div nocc[2]
        ceil == IF nocc[2] = 1 THEN floor ELSE floor + 1
    IN  IF nocc[2] = 1
        THEN set_slice(set_slice(occupations, 0, floor, QOne), floor, nfn, QZero)
        ELSE LET o1 == set_slice(occupations, 0, floor, QOne)
                 o2 == [o1 EXCEPT ![floor + 1] = QSub(nocc, QI(floor))]
             IN  set_slice(o2, ceil, nfn, QZero)

\* (exp.energies[1:] >= exp.energies[:-1]).all()
energies_sorted(energies) ==
    \A k \in 1..(Len(energies) - 1) : QLe(energies[k], energies[k + 1])

\* the body of the loop of AufbauOccModel.assign, lines 605-615
assign_exp(exp, nocc) ==
    IF QLt(QI(Len(exp.energies)), nocc)
    THEN [outcome |-> "ElectronCountError", exp |-> exp]
    ELSE IF ~ energies_sorted(exp.energies)
    THEN [outcome |-> "AssertionError", exp |-> exp]
    ELSE [outcome |-> "ok",
          exp |-> [exp EXCEPT !.occupations =
                       assign_occupations(exp.occupations, nocc)]]

\* AufbauOccModel.assign(exp_alpha, exp_beta), exp_beta None when not given
aufbau_assign(om, exp_alpha, exp_beta, beta_given) ==
    LET a == assign_exp(exp_alpha, om.nalpha)
    IN  IF a.outcome # "ok" \/ ~ beta_given
        THEN [outcome |-> a.outcome, exp_alpha |-> a.exp, exp_beta |-> exp_beta]
        ELSE LET b == assign_exp(exp_beta, om.nbeta)
             IN  [outcome |-> b.outcome, exp_alpha |-> a.exp, exp_beta |-> b.exp]

\* the loop of AufbauSpinOccModel.assign, lines 645-655; ialpha and ibeta
\* count from 0, and indexing an array past its end raises IndexError
RECURSIVE spin_loop(_, _, _, _, _)
spin_loop(nel, exp_alpha, exp_beta, ialpha, ibeta) ==
    IF ~ QLt(QZero, nel)
    THEN [outcome |-> "ok", exp_alpha |-> exp_alpha, exp_beta |-> exp_beta]
    ELSE IF ialpha >= Len(exp_alpha.energies) \/ ibeta >= Len(exp_beta.energies)
    THEN [outcome |-> "IndexError", exp_alpha |-> exp_alpha, exp_beta |-> exp_beta]
    ELSE IF QLe(exp_alpha.energies[ialpha + 1], exp_beta.energies[ibeta + 1])
    THEN spin_loop(QSub(nel, QOne),
                   [exp_alpha EXCEPT !.occupations[ialpha + 1] = QOne],
                   exp_beta, ialpha + 1, ibeta)
    ELSE spin_loop(QSub(nel, QOne), exp_alpha,
                   [exp_beta EXCEPT !.occupations[ibeta + 1] = QOne],
                   ialpha, ibeta + 1)

\* AufbauSpinOccModel.assign(exp_alpha, exp_beta)
spin_assign(nel, exp_alpha, exp_beta) ==
    spin_loop(nel, exp_alpha, exp_beta, 0, 0)

\* electron counts: the halves up to one more than the orbitals
Counts == {Q(k, 2) : k \in 0..(2 * (MaxFn + 1))}

\* AufbauOccModel(nalpha, nbeta) that the constructor accepts
AufbauOccModels ==
    {om \in [nalpha : Counts, nbeta : Counts] :
        ~ (om.nalpha = QZero /\ om.nbeta = QZero)}

\* AufbauSpinOccModel(nel) that the constructor accepts
AufbauSpinOccModels == {nel \in Counts : QLt(QZero, nel)}

\* expansions of 1..MaxFn orbitals, with energies in any order and
\* occupations left by an earlier use
Expansions ==
    UNION {[energies : [1..n -> {QZero, QOne}],
            occupations : {[k \in 1..n |-> o] : o \in {QZero, Q(3, 4)}}]
           : n \in 1..MaxFn}

\* call holds the occupation model and the outcome of its assign; loc the
\* two expansions
InitOcc ==
    /\ \/ \E om \in AufbauOccModels, beta_given \in BOOLEAN :
             call = [solver |-> "AufbauOccModel", om |-> om,
                     beta_given |-> beta_given, outcome |-> ""]
       \/ \E nel \in AufbauSpinOccModels :
             call = [solver |-> "AufbauSpinOccModel", nel |-> nel,
                     beta_given |-> TRUE, outcome |-> ""]
    /\ \E exp_alpha \in Expansions, exp_beta \in Expansions :
          loc = [exp_alpha |-> exp_alpha, exp_beta |-> exp_beta,
                 before_alpha |-> exp_alpha, before_beta |-> exp_beta]
    /\ pc = "assign"
    /\ hist = NoHist
    /\ NoSystem
    /\ i = 0
    /\ converged = FALSE
    /\ cubic = NoCubic

Assigned(r) ==
    /\ call' = [call EXCEPT !.outcome = r.outcome]
    /\ loc' = [loc EXCEPT !.exp_alpha = r.exp_alpha, !.exp_beta = r.exp_beta]
    /\ pc' = IF r.outcome = "ok" THEN "assigned" ELSE "raised"
    /\ UNCHANGED <<wfn_kind, occ_model, wfn_cache, ham_terms, ham_cache,
                   sys_extra, sys_ops, i, converged, hist, cubic>>

\* occ_model.assign(exp_alpha) or occ_model.assign(exp_alpha, exp_beta)
AufbauAssign ==
    /\ pc = "assign"
    /\ call.solver = "AufbauOccModel"
    /\ Assigned(aufbau_assign(call.om, loc.exp_alpha, loc.exp_beta,
                              call.beta_given))

\* occ_model.assign(exp_alpha, exp_beta)
AufbauSpinAssign ==
    /\ pc = "assign"
    /\ call.solver = "AufbauSpinOccModel"
    /\ Assigned(spin_assign(call.nel, loc.exp_alpha, loc.exp_beta))

NextOcc ==
    \/ AufbauAssign
    \/ AufbauSpinAssign

SpecOcc == InitOcc /\ [][NextOcc]_vars

\* assign has run
AssignDone == pc \in {"assigned", "raised"}

\* more electrons are asked for than there are orbitals to place them in
TooManyElectrons ==
    IF call.solver = "AufbauOccModel"
    THEN \/ QLt(QI(Len(loc.exp_alpha.energies)), call.om.nalpha)
         \/ call.beta_given /\ QLt(QI(Len(loc.exp_beta.energies)), call.om.nbeta)
    ELSE QLt(QI(Len(loc.exp_alpha.energies) + Len(loc.exp_beta.energies)),
             call.nel)

\* the expansions are as assign expects them: energies in ascending order
EnergiesSorted ==
    /\ energies_sorted(loc.exp_alpha.energies)
    /\ energies_sorted(loc.exp_beta.energies)

\* C19: on expansions with sorted energies, assign of AufbauOccModel and
\* of AufbauSpinOccModel raises ElectronCountError whenever more electrons
\* are requested than there are orbitals to place them in
C19_TooManyElectronsRejected ==
    (AssignDone /\ EnergiesSorted /\ TooManyElectrons)
        => call.outcome = "ElectronCountError"

\* the sum of the first n elements of a sequence of rationals
RECURSIVE SeqSum(_, _)
SeqSum(seq, n) == IF n = 0 THEN QZero ELSE QAdd(SeqSum(seq, n - 1), seq[n])

\* the occupations of an expansion are those of nocc electrons filled from
\* the lowest orbital
AufbauFilled(exp, nocc) ==
    LET occ == exp.occupations
        nfn == Len(exp.energies)
        floor == nocc[1] \div nocc[2]
    IN  /\ Len(occ) = nfn
        /\ \A k \in 1..nfn :
              /\ k <= floor => occ[k] = QOne
              /\ (k = floor + 1 /\ nocc[2] # 1) => occ[k] = QSub(nocc, QI(floor))
              /\ (k > floor + 1 \/ (k = floor + 1 /\ nocc[2] = 1)) => occ[k] = QZero
              /\ QLe(QZero, occ[k]) /\ QLe(occ[k], QOne)
              /\ k < nfn => QLe(occ[k + 1], occ[k])
        /\ SeqSum(occ, nfn) = nocc

\* the electron count of a channel fits its expansion
Fits(exp, nocc) == ~ QLt(QI(Len(exp.energies)), nocc)

\* C20: AufbauOccModel.assign on expansions with sorted energies and
\* nfn >= nocc orbitals returns, and leaves in every expansion it was
\* given, whatever the occupations were before, the first floor(nocc)
\* occupations at 1, the next one at the fractional remainder (if any)
\* and all others at 0: non-increasing, within [0,1], summing to nocc;
\* an expansion it was not given keeps its occupations
C20_AufbauOccupations ==
    (AssignDone /\ call.solver = "AufbauOccModel" /\ EnergiesSorted
       /\ Fits(loc.exp_alpha, call.om.nalpha)
       /\ (call.beta_given => Fits(loc.exp_beta, call.om.nbeta)))
    => /\ call.outcome = "ok"
       /\ AufbauFilled(loc.exp_alpha, call.om.nalpha)
       /\ IF call.beta_given
          THEN AufbauFilled(loc.exp_beta, call.om.nbeta)
          ELSE loc.exp_beta = loc.before_beta

\* a fractional count on expansions that held other occupations
C20_Witness ==
    /\ pc = "assigned"
    /\ call.solver = "AufbauOccModel"
    /\ call.beta_given
    /\ call.om.nalpha = Q(1, 2)
    /\ call.om.nbeta = QI(1)
    /\ Len(loc.exp_alpha.energies) = MaxFn
    /\ Len(loc.exp_beta.energies) = MaxFn
    /\ loc.before_alpha.occupations[MaxFn] = Q(3, 4)
    /\ loc.before_beta.occupations[MaxFn] = Q(3, 4)
    /\ loc.exp_alpha.occupations[1] = Q(1, 2)
    /\ loc.exp_beta.occupations[MaxFn] = QZero

-----------------------------------------------------------------------------
(* Totality and range of find_min_cubic (SpecCubic).                       *)

Logged(what) == what \in {cubic.log[k] : k \in DOMAIN cubic.log}

\* 6*a*x + 2*b and 3*a*x**2 + 2*b*x + c at the rational x
Curvature(x) == QAdd(QMul(QI(6 * CubicCoeffA), x), QI(2 * CubicCoeffB))
Slope(x) ==
    QAdd(QAdd(QMul(QI(3 * CubicCoeffA), QMul(x, x)),
              QMul(QI(2 * CubicCoeffB), x)),
         QI(CubicC))

\* C27: find_min_cubic divides by 3a only when a # 0 and by b only when
\* b > 0; when it returns a solution instead of an edge, the solution is a
\* root of the derivative in [0,1] with curvature 6ax+2b > 0; at most one
\* root of the derivative has positive curvature; the result is in [0,1]
C27_CubicTotalAndRangeSafe ==
    cubic.phase = "done" =>
        /\ Logged("cubic") => CubicCoeffA # 0
        /\ Logged("quadratic") => CubicCoeffB > 0
        /\ ~ Logged("edge") =>
              /\ InUnit(cubic.x)
              /\ QLt(QZero, Curvature(cubic.x))
              /\ Slope(cubic.x) = QZero
        /\ Logged("edge") => cubic.x \in {QZero, QOne}
        /\ Cardinality({x \in StationaryPoints(CubicCoeffA, CubicCoeffB, CubicC) :
                           QLt(QZero, Curvature(x))}) <= 1
        /\ InUnit(cubic.x)

\* the first root is in [0,1] with negative curvature and the second root
\* is the one returned
C27_Witness ==
    /\ cubic.phase = "done"
    /\ cubic.log = <<"cubic">>
    /\ QLt(QZero, cubic.x) /\ QLt(cubic.x, QOne)
    /\ \E y \in StationaryPoints(CubicCoeffA, CubicCoeffB, CubicC) :
          y # cubic.x /\ InUnit(y) /\ QLt(Curvature(y), QZero)

-----------------------------------------------------------------------------
(* AufbauSpinOccModel.assign on counts that fit (SpecOcc).                 *)

\* na alpha and nb beta electrons fill the lowest spin orbitals, an alpha
\* orbital before a beta orbital of the same energy
LowestFilled(na, nb) ==
    LET ea == loc.exp_alpha
        eb == loc.exp_beta
    IN  /\ \A k \in 1..Len(ea.occupations) :
              ea.occupations[k] = IF k <= na THEN QOne ELSE QZero
        /\ \A k \in 1..Len(eb.occupations) :
              eb.occupations[k] = IF k <= nb THEN QOne ELSE QZero
        /\ (na > 0 /\ nb < Len(eb.energies))
              => QLe(ea.energies[na], eb.energies[nb + 1])
        /\ (nb > 0 /\ na < Len(ea.energies))
              => QLt(eb.energies[nb], ea.energies[na + 1])

\* C30: on expansions with sorted energies and for nel not larger than the
\* number of alpha plus beta orbitals, AufbauSpinOccModel.assign returns
\* normally and leaves nel electrons in total, in the nel lowest spin
\* orbitals with ties going to alpha, whatever the occupations were before
C30_SpinAufbauFillsLowest ==
    (AssignDone /\ call.solver = "AufbauSpinOccModel" /\ EnergiesSorted
       /\ ~ TooManyElectrons)
    => /\ call.outcome = "ok"
       /\ QAdd(SeqSum(loc.exp_alpha.occupations, Len(loc.exp_alpha.occupations)),
               SeqSum(loc.exp_beta.occupations, Len(loc.exp_beta.occupations)))
            = call.nel
       /\ \E na \in 0..Len(loc.exp_alpha.energies),
             nb \in 0..Len(loc.exp_beta.energies) :
             QI(na + nb) = call.nel /\ LowestFilled(na, nb)

-----------------------------------------------------------------------------
(* check_dm on its own (src/utils.py 35-62).                               *)

\* occupations around the two limits of each pair of eps and occ_max
Occupations ==
    {Q(-1, 2), Q(-1, 10), Q(-1, 5000), Q(-1, 10000), QZero, Q(1, 2), QOne,
     Q(10001, 10000), Q(5001, 5000), Q(11, 10), Q(3, 2), QI(2),
     Q(20001, 10000), Q(21, 10), QI(3)}

InitDm ==
    /\ \E dm \in [Basis -> Occupations] :
          loc = [dm |-> dm, dm_before |-> dm]
    /\ \E eps \in {Eps, Q(1, 10)}, occ_max \in {OccMax, QI(2)} :
          call = [solver |-> "check_dm", eps |-> eps, occ_max |-> occ_max,
                  outcome |-> ""]
    /\ pc = "check"
    /\ hist = NoHist
    /\ NoSystem
    /\ i = 0
    /\ converged = FALSE
    /\ cubic = NoCubic

\* check_dm(dm, overlap, eps, occ_max)
CheckDm ==
    /\ pc = "check"
    /\ LET r == check_dm_eps(loc.dm, call.eps, call.occ_max)
       IN  /\ call' = [call EXCEPT !.outcome = r]
           /\ pc' = IF r = "ok" THEN "returned" ELSE "raised"
    /\ UNCHANGED <<wfn_kind, occ_model, wfn_cache, ham_terms, ham_cache,
                   sys_extra, sys_ops, i, converged, loc, hist, cubic>>

NextDm == CheckDm

SpecDm == InitDm /\ [][NextDm]_vars

\* some natural occupation is outside [-eps, occ_max + eps]
OutOfRange ==
    \E a \in Basis :
        \/ QLt(loc.dm[a], QNeg(call.eps))
        \/ QLt(QAdd(call.occ_max, call.eps), loc.dm[a])

\* C22: check_dm raises ValueError exactly when the smallest natural
\* occupation is below -eps or the largest is above occ_max + eps; otherwise
\* it returns, and either way the density matrix is as it was
C22_CheckDmRange ==
    pc \in {"returned", "raised"} =>
        /\ call.outcome = (IF OutOfRange THEN "ValueError" ELSE "ok")
        /\ (pc = "raised") = OutOfRange
        /\ loc.dm = loc.dm_before

\* occupations exactly on the two limits pass
C22_Witness ==
    /\ pc = "returned"
    /\ loc.dm[1] = QNeg(call.eps)
    /\ loc.dm[2] = QAdd(call.occ_max, call.eps)

-----------------------------------------------------------------------------
(* Hamiltonians whose labels end like a spin channel.                      *)

\* term lists with pairwise distinct labels
KeyTermLists ==
    { << [type |-> "direct",   label |-> "x_alpha", op |-> "er"],
         [type |-> "exchange", label |-> "x",       op |-> "er"] >>,
      << [type |-> "exchange", label |-> "x",       op |-> "er"],
         [type |-> "direct",   label |-> "x_alpha", op |-> "er"],
         [type |-> "linear",   label |-> "kin",     op |-> "kin"] >>,
      << [type |-> "direct",   label |-> "x",       op |-> "er"],
         [type |-> "exchange", label |-> "x_beta",  op |-> "er"] >>,
      HartreeFockTerms }

InitKeys ==
    /\ \E w \in Wavefunctions, ops \in HamSystems :
          /\ wfn_kind = w.kind
          /\ occ_model = w.occ
          /\ sys_ops = ops
          /\ wfn_cache \in {guess_hamiltonian_core(w.kind, w.occ, ops), EmptyCache}
    /\ ham_terms \in KeyTermLists
    /\ ham_cache = EmptyCache
    /\ sys_extra = EmptyCache
    /\ pc = "idle"
    /\ call = NoCall
    /\ i = 0
    /\ converged = FALSE
    /\ loc = ZeroLoc(wfn_kind)
    /\ hist = [NoCalls EXCEPT !.fockIn = ZeroFocks(wfn_kind)]
    /\ cubic = NoCubic

SpecKeys == InitKeys /\ [][NextHam]_vars

\* the energy of term n computed with a cache of its own
OwnEnergy(n) ==
    term_compute(ham_terms[n], wfn_kind, sys_ops, wfn_cache, EmptyCache).val

RECURSIVE OwnEnergies(_)
OwnEnergies(n) ==
    IF n = 0 THEN QZero ELSE QAdd(OwnEnergies(n - 1), OwnEnergy(n))

\* C26: two terms with distinct labels write disjoint sets of operator
\* keys, so no term reads an operator another term built: the energy of the
\* first compute() of a Hamiltonian is the sum of the energies its terms
\* have when each one builds its own operators
C26_DistinctLabelsDisjointKeys ==
    (hist.last = "compute" /\ hist.nops = 1) =>
        /\ \A m, n \in 1..Len(ham_terms) :
              ham_terms[m].label # ham_terms[n].label =>
                 TermKeys(ham_terms[m], wfn_kind)
                    \cap TermKeys(ham_terms[n], wfn_kind) = {}
        /\ hist.total = QAdd(OwnEnergies(Len(ham_terms)), QI(sys_ops.nn))

-----------------------------------------------------------------------------
(* UTwoIndexTerm and the spin-summed density matrix of its cache           *)
(* (src/observable.py 35-43, 115-151).  The cache holds dm_alpha and       *)
(* dm_beta, the density matrices the caller updates, and dm_full, derived  *)
(* from them when it is asked for.                                         *)

\* dm_full is the alpha density matrix alone
compute_dm_full_alpha(cache) ==
    load_or_build(cache, "dm_full", cache["dm_alpha"])

\* compute_dm_full(cache): the cache afterwards and dm_full
compute_dm_full(cache) ==
    load_or_build(cache, "dm_full", VAdd(cache["dm_alpha"], cache["dm_beta"]))

\* UTwoIndexTerm.compute_energy(cache); same: op_alpha is op_beta
two_index_energy(op_alpha, op_beta, same, cache) ==
    IF same
    THEN LET full == compute_dm_full(cache)
         IN  [cache |-> full.cache, val |-> expectation_value(op_alpha, full.op)]
    ELSE [cache |-> cache,
          val |-> QAdd(expectation_value(op_alpha, cache["dm_alpha"]),
                       expectation_value(op_beta, cache["dm_beta"]))]

\* cache.clear() between two evaluations: what was derived from the
\* density matrices is dropped
clear_derived(cache) == clear_item(cache, "dm_full")

DensityMatrices == {Vec(0, 0), Vec(1, 0), Vec(0, 1), Vec(1, 1)}

\* call holds the term; pc tells whether the cache was cleared after the
\* last update of a density matrix; hist counts the steps and keeps the
\* energy of the last evaluation
InitFull ==
    /\ \E dma \in DensityMatrices, dmb \in DensityMatrices :
          ham_cache = Store(Store(EmptyCache, "dm_alpha", dma), "dm_beta", dmb)
    /\ \E op_alpha \in {Vec(1, 2), Vec(-1, 1)}, op_beta \in {Vec(1, 2), Vec(0, 3)},
          same \in BOOLEAN :
          /\ same => op_alpha = op_beta
          /\ call = [solver |-> "UTwoIndexTerm", op_alpha |-> op_alpha,
                     op_beta |-> op_beta, same |-> same]
    /\ pc = "cleared"
    /\ hist = [nops |-> 0, last |-> "none", energy |-> QZero]
    /\ wfn_kind = "U"
    /\ occ_model = [nalpha |-> QI(1), nbeta |-> QI(1)]
    /\ wfn_cache = EmptyCache
    /\ ham_terms = << >>
    /\ sys_extra = EmptyCache
    /\ sys_ops = [kin |-> ZeroVec, na |-> ZeroVec, er |-> Mat(0, 0, 0), nn |-> 0]
    /\ i = 0
    /\ converged = FALSE
    /\ loc = ZeroLoc("R")
    /\ cubic = NoCubic

FullFixed == <<wfn_kind, occ_model, wfn_cache, ham_terms, sys_extra, sys_ops,
               call, i, converged, loc, cubic>>

\* the caller updates dm_alpha or dm_beta
DmUpdate ==
    /\ hist.nops < MaxOps
    /\ \E spin \in Channels, dm \in DensityMatrices :
          /\ dm # ham_cache["dm_" \o spin]
          /\ ham_cache' = Store(ham_cache, "dm_" \o spin, dm)
    /\ pc' = "updated"
    /\ hist' = [hist EXCEPT !.nops = @ + 1, !.last = "update"]
    /\ UNCHANGED FullFixed

\* clear()
CacheClear ==
    /\ hist.nops < MaxOps
    /\ ham_cache' = clear_derived(ham_cache)
    /\ pc' = "cleared"
    /\ hist' = [hist EXCEPT !.nops = @ + 1, !.last = "clear"]
    /\ UNCHANGED FullFixed

\* energy = term.compute_energy(cache)
TwoIndexEnergy ==
    /\ hist.nops < MaxOps
    /\ LET r == two_index_energy(call.op_alpha, call.op_beta, call.same,
                                 ham_cache)
       IN  /\ ham_cache' = r.cache
           /\ hist' = [nops |-> hist.nops + 1, last |-> "energy",
                       energy |-> r.val]
    /\ UNCHANGED <<pc, FullFixed>>

NextFull ==
    \/ DmUpdate
    \/ CacheClear
    \/ TwoIndexEnergy

SpecFull == InitFull /\ [][NextFull]_vars

\* the energy of the term for independent alpha and beta operators
SpinResolvedEnergy ==
    QAdd(expectation_value(call.op_alpha, ham_cache["dm_alpha"]),
         expectation_value(call.op_beta, ham_cache["dm_beta"]))

\* C23: when every update of a density matrix was followed by clear(),
\* UTwoIndexTerm.compute_energy, with or without the shortcut through
\* dm_full, gives the contraction of the operator with the current dm_alpha
\* plus that with the current dm_beta, and a cached dm_full is the sum of
\* the current dm_alpha and dm_beta
C23_ShortcutExact ==
    pc = "cleared" =>
        /\ hist.last = "energy" => hist.energy = SpinResolvedEnergy
        /\ Has(ham_cache, "dm_full") =>
              ham_cache["dm_full"] =
                  VAdd(ham_cache["dm_alpha"], ham_cache["dm_beta"])

\* the shortcut is taken after an update and a clear, on a cache that held
\* another dm_full before
C23_Witness ==
    /\ pc = "cleared"
    /\ call.same
    /\ hist.last = "energy"
    /\ hist.nops = 4
    /\ hist.energy # QZero
    /\ ham_cache["dm_alpha"] # ham_cache["dm_beta"]

-----------------------------------------------------------------------------
(* The density-matrix attributes of a wavefunction that may lack its       *)
(* expansions (src/wfn.py 146-156, 272-312).                               *)

\* the orbitals of the core guess with the expansion of one channel
\* removed, as after init_exp of one channel only
WithoutExp(wc, spin) == clear_item(wc, "exp_" \o spin)

\* hist keeps the last access: the attribute, its outcome, the matrix it
\* returned and the cache before it
InitAccess ==
    /\ \E w \in Wavefunctions, ops \in HamSystems :
          /\ wfn_kind = w.kind
          /\ occ_model = w.occ
          /\ sys_ops = ops
          /\ \E wc \in {guess_hamiltonian_core(w.kind, w.occ, ops)} :
                wfn_cache \in {wc, EmptyCache, WithoutExp(wc, "alpha"),
                               WithoutExp(wc, "beta")}
    /\ ham_terms = << >>
    /\ ham_cache = EmptyCache
    /\ sys_extra = EmptyCache
    /\ pc = "idle"
    /\ call = NoCall
    /\ i = 0
    /\ converged = FALSE
    /\ loc = ZeroLoc(wfn_kind)
    /\ hist = [nops |-> 0, select |-> "none", outcome |-> "none",
               val |-> ZeroVec, before |-> EmptyCache]
    /\ cubic = NoCubic

AccessFixed == <<wfn_kind, occ_model, ham_terms, ham_cache, sys_extra, sys_ops,
                 pc, call, i, converged, loc, cubic>>

\* wfn.dm_alpha, wfn.dm_beta, wfn.dm_full
WfnGetDm ==
    /\ hist.nops < MaxOps
    /\ \E select \in {"alpha", "beta", "full"} :
          LET r == get_dm(wfn_kind, wfn_cache, select)
          IN  /\ wfn_cache' = r.wfn
              /\ hist' = [nops |-> hist.nops + 1, select |-> select,
                          outcome |-> IF r.ok THEN "ok" ELSE r.exc,
                          val |-> IF r.ok THEN r.val ELSE ZeroVec,
                          before |-> wfn_cache]
    /\ UNCHANGED AccessFixed

\* wfn.invalidate()
WfnInvalidate ==
    /\ hist.nops < MaxOps
    /\ wfn_cache # EmptyCache
    /\ wfn_cache' = invalidate(wfn_cache)
    /\ hist' = [hist EXCEPT !.nops = @ + 1, !.select = "none",
                            !.outcome = "none", !.before = wfn_cache]
    /\ UNCHANGED AccessFixed

NextAccess ==
    \/ WfnGetDm
    \/ WfnInvalidate

SpecAccess == InitAccess /\ [][NextAccess]_vars

\* C28: an access to a density matrix that fails because the expansion
\* it needs is absent leaves the cache of the wavefunction as it was, with
\* no dm_<select> entry added
C28_FailedAccessLeavesCache ==
    hist.outcome = "AttributeError" =>
        /\ wfn_cache = hist.before
        /\ ~ Has(wfn_cache, "dm_" \o hist.select)

-----------------------------------------------------------------------------
(* setup_mean_field_wfn (src/wfn.py 49-143). The electron count nel is a   *)
(* rational; it is an int when it is whole. mult is an integer or None;    *)
(* restricted is None, 0 (False) or 1 (True).                              *)

MaxMult == 4      \* largest multiplicity asked for

\* no multiplicity is ever refused for its parity
parity_clash_never(nel, mult) == FALSE

\* (nel%2 == 0) ^ (mult%2 != 0), line 84
parity_clash(nel, mult) == (nel % 2 = 0) # (mult % 2 # 0)

\* lines 81-91: the multiplicity, given or by default
determine_mult(nel, mult, restricted) ==
    IF nel[2] = 1
    THEN IF mult = None
         THEN [exc |-> "", mult |-> (nel[1] % 2) + 1]
         ELSE IF parity_clash(nel[1], mult)
         THEN [exc |-> "ValueError", mult |-> mult]
         ELSE [exc |-> "", mult |-> mult]
    ELSE IF mult = None
         THEN IF restricted = 1
              THEN [exc |-> "", mult |-> 1]
              ELSE [exc |-> "ValueError", mult |-> mult]
         ELSE [exc |-> "", mult |-> mult]

\* lines 81-97: mult and restricted as the call settles them
determine(nel, mult, restricted) ==
    LET m == determine_mult(nel, mult, restricted)
    IN  IF m.exc # ""
        THEN [exc |-> m.exc, mult |-> m.mult, restricted |-> FALSE]
        ELSE IF m.mult < 1
        THEN [exc |-> "ValueError", mult |-> m.mult, restricted |-> FALSE]
        ELSE IF restricted = 1 /\ m.mult # 1
        THEN [exc |-> "ValueError", mult |-> m.mult, restricted |-> FALSE]
        ELSE [exc |-> "", mult |-> m.mult,
              restricted |-> IF restricted = None THEN m.mult = 1
                             ELSE restricted = 1]

\* the placeholder for the occupation model of a system without wavefunction
NoOccModel == [nalpha |-> QZero, nbeta |-> QZero]

\* AufbauOccModel.__init__(nalpha, nbeta), lines 566-576
AufbauOccModel(nalpha, nbeta) ==
    IF QLt(nalpha, QZero) \/ QLt(nbeta, QZero)
    THEN [exc |-> "ElectronCountError", om |-> NoOccModel]
    ELSE IF nalpha = QZero /\ nbeta = QZero
    THEN [exc |-> "ElectronCountError", om |-> NoOccModel]
    ELSE [exc |-> "", om |-> [nalpha |-> nalpha, nbeta |-> nbeta]]

\* x/2: the floor for an int, exact for a float
half(x) == IF x[2] = 1 THEN QI(x[1] \div 2) ELSE QMul(x, Q(1, 2))

\* lines 110-113
new_occ_model(nel, mult, restricted) ==
    IF restricted
    THEN AufbauOccModel(half(nel), half(nel))
    ELSE AufbauOccModel(half(QAdd(nel, QI(mult - 1))),
                        half(QSub(nel, QI(mult - 1))))

\* what a call leaves: the exception, the class, size, occupation model and
\* cache of system.wfn, and the mult and restricted it logged
SetupResult(exc, kind, nbasis, om, wc, d) ==
    [exc |-> exc, kind |-> kind, nbasis |-> nbasis, om |-> om, wc |-> wc,
     mult |-> d.mult, restricted |-> d.restricted]

\* lines 129-136: the wavefunction holds exp_alpha
setup_occupations(restricted, kind, nbasis, om, wc, d) ==
    IF ~ restricted /\ ~ Has(wc, "exp_beta")
    THEN SetupResult("AttributeError", kind, nbasis, om, wc, d)
    ELSE LET a == aufbau_assign(om, wc["exp_alpha"],
                                wc[IF restricted THEN "exp_alpha" ELSE "exp_beta"],
                                ~ restricted)
             w1 == Store(wc, "exp_alpha", a.exp_alpha)
             w2 == IF restricted THEN w1 ELSE Store(w1, "exp_beta", a.exp_beta)
         IN  IF a.outcome # "ok"
             THEN SetupResult(a.outcome, kind, nbasis, om, w2, d)
             ELSE SetupResult("", kind, nbasis, om,
                      clear_item(clear_item(clear_item(clear_item(w2,
                          "dm_alpha"), "dm_beta"), "dm_full"), "dm_spin"), d)

\* lines 116-138: a wavefunction is present
setup_existing(obasis, new_om, kind, nbasis, om, wc, d) ==
    IF kind = "other"
    THEN SetupResult("ValueError", kind, nbasis, om, wc, d)
    ELSE IF nbasis # obasis
    THEN SetupResult("ValueError", kind, nbasis, om, wc, d)
    ELSE IF d.restricted # (kind = "R")
    THEN SetupResult("ValueError", kind, nbasis, om, wc, d)
    ELSE IF Has(wc, "exp_alpha")
    THEN setup_occupations(d.restricted, kind, nbasis, new_om, wc, d)
    ELSE SetupResult("", kind, nbasis, new_om, invalidate(wc), d)

\* setup_mean_field_wfn(system, charge, mult, restricted), with
\* nel = system.numbers.sum() - charge
setup_mean_field_wfn(obasis, nel, mult, restricted, kind, nbasis, om, wc) ==
    LET d == determine(nel, mult, restricted)
        n == new_occ_model(nel, d.mult, d.restricted)
    IN  IF obasis = None
        THEN SetupResult("RuntimeError", kind, nbasis, om, wc, d)
        ELSE IF d.exc # ""
        THEN SetupResult(d.exc, kind, nbasis, om, wc, d)
        ELSE IF n.exc # ""
        THEN SetupResult(n.exc, kind, nbasis, om, wc, d)
        ELSE IF kind # "none"
        THEN setup_existing(obasis, n.om, kind, nbasis, om, wc, d)
        ELSE SetupResult("", IF d.restricted THEN "R" ELSE "U", obasis, n.om,
                         EmptyCache, d)

\* electron counts in halves, from -1 to one pair more than the orbitals hold
ElectronCounts == {Q(k, 2) : k \in (-2)..(4 * (MaxFn + 1))}
Multiplicities == {None} \cup 0..MaxMult

\* the occupation models a wavefunction of nbasis functions was set up with
ExistingModels(kind, nbasis) ==
    {om \in [nalpha : {QI(k) : k \in 0..nbasis}, nbeta : {QI(k) : k \in 0..nbasis}] :
        /\ om.nalpha # QZero
        /\ ~ QLt(om.nalpha, om.nbeta)
        /\ kind = "R" => om.nalpha = om.nbeta}

\* an expansion of nbasis orbitals as update_exp leaves it: energies sorted,
\* occupations assigned by the occupation model
ExpansionsOf(nbasis, nocc) ==
    {[energies |-> e,
      occupations |-> assign_occupations([k \in 1..nbasis |-> QZero], nocc)] :
        e \in {e \in [1..nbasis -> {QZero, QOne}] : energies_sorted(e)}}

\* the caches of such a wavefunction: empty, the expansions, the expansions
\* with the density matrices derived from them, the density matrices alone
ExistingCaches(kind, nbasis, om) ==
    UNION {LET exps == [k \in {"exp_" \o s : s \in Spins(kind)} |->
                           IF k = "exp_alpha" THEN ea ELSE eb]
               dms == [k \in {"dm_" \o s : s \in Spins(kind) \cup {"full", "spin"}} |->
                           IF k = "dm_alpha" THEN ea.occupations
                           ELSE IF k = "dm_beta" THEN eb.occupations
                           ELSE IF k = "dm_full"
                           THEN [j \in 1..nbasis |->
                                    QAdd(ea.occupations[j], eb.occupations[j])]
                           ELSE [j \in 1..nbasis |->
                                    QSub(ea.occupations[j], eb.occupations[j])]]
           IN  {EmptyCache, exps, dms,
                [k \in DOMAIN exps \cup DOMAIN dms |->
                    IF k \in DOMAIN exps THEN exps[k] ELSE dms[k]]}
           : ea \in ExpansionsOf(nbasis, om.nalpha),
             eb \in ExpansionsOf(nbasis, om.nbeta)}

\* call holds the arguments of the last call, its outcome and the mult and
\* restricted it logged; loc the size of the wavefunction; hist the class,
\* occupation model and cache before the call
InitSetup ==
    /\ \/ /\ wfn_kind \in {"none", "other"}
          /\ occ_model = NoOccModel
          /\ wfn_cache = EmptyCache
          /\ loc = [nbasis |-> MaxFn]
       \/ \E kind \in {"R", "U"}, nbasis \in 1..MaxFn :
             /\ wfn_kind = kind
             /\ loc = [nbasis |-> nbasis]
             /\ occ_model \in ExistingModels(kind, nbasis)
             /\ wfn_cache \in ExistingCaches(kind, nbasis, occ_model)
    /\ ham_terms = << >>
    /\ ham_cache = EmptyCache
    /\ sys_extra = EmptyCache
    /\ sys_ops = [kin |-> ZeroVec, na |-> ZeroVec, er |-> ZeroVec, nn |-> 0]
    /\ pc = "setup"
    /\ call = [obasis |-> None, nel |-> QZero, mult |-> None,
               restricted |-> None, outcome |-> "", mult_used |-> None,
               restricted_used |-> FALSE]
    /\ i = 0
    /\ converged = FALSE
    /\ hist = [kind |-> wfn_kind, om |-> occ_model, cache |-> wfn_cache]
    /\ cubic = NoCubic

\* setup_mean_field_wfn(system, charge, mult, restricted)
SetupMeanFieldWfn ==
    /\ pc = "setup"
    /\ \E obasis \in {None, MaxFn}, nel \in ElectronCounts,
          mult \in Multiplicities, restricted \in {None, 0, 1} :
          LET r == setup_mean_field_wfn(obasis, nel, mult, restricted,
                                        wfn_kind, loc.nbasis, occ_model, wfn_cache)
          IN  /\ wfn_kind' = r.kind
              /\ occ_model' = r.om
              /\ wfn_cache' = r.wc
              /\ loc' = [nbasis |-> r.nbasis]
              /\ call' = [obasis |-> obasis, nel |-> nel, mult |-> mult,
                          restricted |-> restricted, outcome |-> r.exc,
                          mult_used |-> r.mult, restricted_used |-> r.restricted]
              /\ pc' = IF r.exc = "" THEN "returned" ELSE "raised"
    /\ UNCHANGED <<ham_terms, ham_cache, sys_extra, sys_ops, i, converged,
                   hist, cubic>>

NextSetup == SetupMeanFieldWfn

SpecSetup == InitSetup /\ [][NextSetup]_vars

\* the call was made on a system with a basis and an integer electron count
IntegerCall ==
    /\ pc \in {"returned", "raised"}
    /\ call.obasis # None
    /\ call.nel[2] = 1

\* the multiplicity the call works with: the given one, or nel%2+1
MultOf(c) == IF c.mult = None THEN (c.nel[1] % 2) + 1 ELSE c.mult

\* C21: for an integer electron count the call raises ValueError when the
\* given mult has the parity of nel, when mult < 1, or when restricted is
\* True and mult is not 1; a call that returns has worked with mult
\* defaulting to nel%2+1 and restricted defaulting to (mult = 1), and the
\* occupation model of the wavefunction has nalpha + nbeta = nel and
\* nalpha - nbeta = mult - 1; a restricted wavefunction results only for an
\* even electron count
C21_MultAndRestrictedSettled ==
    IntegerCall =>
        /\ (call.mult # None /\ (call.mult % 2 = call.nel[1] % 2)) =>
              call.outcome = "ValueError"
        /\ MultOf(call) < 1 => call.outcome = "ValueError"
        /\ (call.restricted = 1 /\ MultOf(call) # 1) => call.outcome = "ValueError"
        /\ pc = "returned" =>
              /\ call.mult_used = MultOf(call)
              /\ call.restricted_used = (IF call.restricted = None
                                         THEN MultOf(call) = 1
                                         ELSE call.restricted = 1)
              /\ QAdd(occ_model.nalpha, occ_model.nbeta) = call.nel
              /\ QSub(occ_model.nalpha, occ_model.nbeta) = QI(MultOf(call) - 1)
              /\ (wfn_kind = "R") = call.restricted_used
              /\ wfn_kind = "R" => call.nel[1] % 2 = 0

\* a triplet asked for by its multiplicity alone is set up unrestricted
C21_Witness ==
    /\ IntegerCall
    /\ pc = "returned"
    /\ hist.kind = "none"
    /\ call.mult = 3
    /\ call.restricted = None
    /\ wfn_kind = "U"
    /\ occ_model = [nalpha |-> QI(2), nbeta |-> QI(0)]

\* the call was made on a system that had a mean-field wavefunction
OnExisting ==
    /\ pc \in {"returned", "raised"}
    /\ hist.kind \in {"R", "U"}

DmKeys == {"dm_alpha", "dm_beta", "dm_full", "dm_spin"}

\* C29: a call on an existing wavefunction that raises ValueError or
\* ElectronCountError leaves its occupation model and its cache (orbital
\* occupations, density matrices) as they were; a call that returns on a
\* wavefunction holding an expansion leaves the occupations of the new
\* occupation model and none of dm_alpha, dm_beta, dm_full, dm_spin
C29_SetupAllOrNothing ==
    OnExisting =>
        /\ call.outcome \in {"ValueError", "ElectronCountError"} =>
              /\ occ_model = hist.om
              /\ wfn_cache = hist.cache
        /\ (pc = "returned" /\ Has(hist.cache, "exp_alpha")) =>
              /\ \A s \in Spins(wfn_kind) :
                    wfn_cache["exp_" \o s].occupations =
                       assign_occupations(hist.cache["exp_" \o s].occupations,
                                          Nocc(occ_model, s))
              /\ DOMAIN wfn_cache \cap DmKeys = {}
-----------------------------------------------------------------------------
(* project_orbitals_mgs (src/project.py 36-118). The new basis is          *)
(* orthonormal (olp_22 the unit matrix, so projector = olp_21), and exp0   *)
(* holds the functions of the old basis as its orbitals, so the projection *)
(* of orbital i0 is column i0 of olp_21. A float is a rational or NaN.     *)

NaN == <<0, 0>>
IsNaN(x) == x[2] = 0
FSub(x, y) == IF IsNaN(x) \/ IsNaN(y) THEN NaN ELSE QSub(x, y)
FAdd(x, y) == IF IsNaN(x) \/ IsNaN(y) THEN NaN ELSE QAdd(x, y)
FMul(x, y) == IF IsNaN(x) \/ IsNaN(y) THEN NaN ELSE QMul(x, y)
\* the denominators are norms of the vector the numerator is a product
\* with: a zero denominator comes with a zero numerator, and 0/0 is NaN
FDiv(x, y) ==
    IF IsNaN(x) \/ IsNaN(y) \/ y = QZero THEN NaN
    ELSE Q(x[1] * y[2], x[2] * y[1])
\* np.sqrt, exact on the squares
FSqrt(x) == IF IsNaN(x) THEN NaN ELSE Q(Sqrt(x[1]), Sqrt(x[2]))
\* a comparison with NaN is False
FLt(x, y) == ~ IsNaN(x) /\ ~ IsNaN(y) /\ QLt(x, y)

\* the threshold eps of the renormalization
MgsEps == Q(1, 1000)

RECURSIVE dot_upto(_, _, _)
dot_upto(a, b, k) ==
    IF k = 0 THEN QZero ELSE FAdd(dot_upto(a, b, k - 1), FMul(a[k], b[k]))

\* dot22(a, b) = np.dot(np.dot(a, olp_22), b)
dot22(a, b) == dot_upto(a, b, Len(a))

\* i1 > exp1.nfn, line 88
too_many(i1, nfn) == i1 > nfn

\* the loop of lines 85-92 from orbital i0 (counted from 0) on; an index
\* past the end of an array raises IndexError. touched collects the columns
\* of exp1 that were written
RECURSIVE project_occupied(_, _, _, _, _, _)
project_occupied(exp0, exp1, projector, i0, i1, touched) ==
    IF i0 = Len(exp0.occupations)
    THEN [outcome |-> "ok", exp1 |-> exp1, ntrans |-> i1, touched |-> touched]
    ELSE IF exp0.occupations[i0 + 1] = QZero
    THEN project_occupied(exp0, exp1, projector, i0 + 1, i1, touched)
    ELSE IF too_many(i1, Len(exp1.occupations))
    THEN [outcome |-> "ProjectionError", exp1 |-> exp1, ntrans |-> i1,
          touched |-> touched]
    ELSE IF i1 >= Len(exp1.occupations)
    THEN [outcome |-> "IndexError", exp1 |-> exp1, ntrans |-> i1,
          touched |-> touched]
    ELSE project_occupied(exp0,
             [exp1 EXCEPT !.coeffs[i1 + 1] = projector[i0 + 1],
                          !.occupations[i1 + 1] = exp0.occupations[i0 + 1]],
             projector, i0 + 1, i1 + 1, touched \cup {i1})

\* lines 95-99: what the loop did not touch is cleared
clear_untouched(exp1, ntrans) ==
    [coeffs |-> [k \in 1..Len(exp1.coeffs) |->
                    IF k > ntrans
                    THEN [b \in 1..Len(exp1.coeffs[k]) |-> QZero]
                    ELSE exp1.coeffs[k]],
     occupations |-> set_slice(exp1.occupations, ntrans,
                               Len(exp1.occupations), QZero),
     energies |-> [k \in 1..Len(exp1.energies) |-> QZero]]

\* orb -= other*dot22(other, orb)/np.sqrt(dot22(orb, orb)), line 112
subtract_overlap(orb, other) ==
    LET f == FDiv(dot22(other, orb), FSqrt(dot22(orb, orb)))
    IN  [b \in 1..Len(orb) |-> FSub(orb[b], FMul(other[b], f))]

\* the loop of lines 110-112 on column i1, from column j1 on
RECURSIVE subtract_previous(_, _, _)
subtract_previous(coeffs, i1, j1) ==
    IF j1 = i1 THEN coeffs
    ELSE subtract_previous(
             [coeffs EXCEPT ![i1 + 1] = subtract_overlap(@, coeffs[j1 + 1])],
             i1, j1 + 1)

\* the loop of lines 106-118 from column i1 on
RECURSIVE mgs(_, _, _)
mgs(coeffs, i1, ntrans) ==
    IF i1 = ntrans THEN [outcome |-> "ok", coeffs |-> coeffs]
    ELSE LET c == subtract_previous(coeffs, i1, 0)
             norm == FSqrt(dot22(c[i1 + 1], c[i1 + 1]))
         IN  IF FLt(norm, MgsEps)
             THEN [outcome |-> "ProjectionError", coeffs |-> c]
             ELSE mgs([c EXCEPT ![i1 + 1] =
                          [b \in 1..Len(@) |-> FDiv(@[b], norm)]],
                      i1 + 1, ntrans)

\* project_orbitals_mgs(obasis0, obasis1, exp0, exp1)
project_orbitals_mgs(exp0, exp1, projector) ==
    LET p == project_occupied(exp0, exp1, projector, 0, 0, {})
        c == clear_untouched(p.exp1, p.ntrans)
        m == mgs(c.coeffs, 0, p.ntrans)
    IN  IF p.outcome # "ok"
        THEN [outcome |-> p.outcome, exp1 |-> p.exp1, touched |-> p.touched]
        ELSE [outcome |-> m.outcome, exp1 |-> [c EXCEPT !.coeffs = m.coeffs],
              touched |-> 0..(Len(exp1.occupations) - 1)]

\* the functions of the new basis, and the columns of olp_21: a function of
\* the old basis is one of the new basis or orthogonal to all of them
NewBasis == 1..MaxFn
Columns ==
    {[b \in NewBasis |-> IF b = k THEN QOne ELSE QZero] : k \in 0..MaxFn}

\* exp0 with up to one orbital more than exp1 can hold, each empty or
\* singly occupied
OldExpansions ==
    UNION {[occupations : [1..n -> {QZero, QOne}]] : n \in 1..(MaxFn + 1)}

\* exp1 of nfn orbitals as a new wavefunction allocates it
NewExpansion(nfn) ==
    [coeffs |-> [k \in 1..nfn |-> [b \in NewBasis |-> QZero]],
     occupations |-> [k \in 1..nfn |-> QZero],
     energies |-> [k \in 1..nfn |-> QZero]]

\* loc holds exp0, exp1 and olp_21; call the outcome; hist the columns of
\* exp1 that were accessed
InitProject ==
    /\ \E exp0 \in OldExpansions, nfn \in 1..MaxFn :
          \E projector \in [1..Len(exp0.occupations) -> Columns] :
             loc = [exp0 |-> exp0, exp1 |-> NewExpansion(nfn),
                    projector |-> projector]
    /\ call = [solver |-> "project_orbitals_mgs", outcome |-> ""]
    /\ hist = [touched |-> {}]
    /\ pc = "project"
    /\ NoSystem
    /\ i = 0
    /\ converged = FALSE
    /\ cubic = NoCubic

\* project_orbitals_mgs(obasis0, obasis1, exp0, exp1)
ProjectOrbitalsMgs ==
    /\ pc = "project"
    /\ LET r == project_orbitals_mgs(loc.exp0, loc.exp1, loc.projector)
       IN  /\ loc' = [loc EXCEPT !.exp1 = r.exp1]
           /\ call' = [call EXCEPT !.outcome = r.outcome]
           /\ hist' = [touched |-> r.touched]
           /\ pc' = IF r.outcome = "ok" THEN "projected" ELSE "raised"
    /\ UNCHANGED <<wfn_kind, occ_model, wfn_cache, ham_terms, ham_cache,
                   sys_extra, sys_ops, i, converged, cubic>>

NextProject == ProjectOrbitalsMgs

SpecProject == InitProject /\ [][NextProject]_vars

\* the number of orbitals of exp0 with a non-zero occupation
Occupied(exp0) ==
    Cardinality({k \in 1..Len(exp0.occupations) : exp0.occupations[k] # QZero})

\* C24: when exp0 has more occupied orbitals than exp1 has orbitals the
\* call raises ProjectionError, and no call accesses a column of exp1 with
\* an index of exp1.nfn or more
C24_TooManyOccupiedIsProjectionError ==
    pc \in {"projected", "raised"} =>
        /\ Occupied(loc.exp0) > Len(loc.exp1.occupations) =>
              call.outcome = "ProjectionError"
        /\ \A k \in hist.touched : k < Len(loc.exp1.occupations)
-----------------------------------------------------------------------------
(* converge_scf_oda as one call (src/scf.py 380-473, and the open-shell    *)
(* twin): the steps of the state machine above, chained from the check on  *)
(* entry to the exception or the return.                                   *)

\* what a call leaves: how it ended, the caches, system.extra and the
\* density matrices dm2 it handed to the wavefunction, in order
OdaOutcome(exc, wc, hc, extra, dms) ==
    [exc |-> exc, wfn |-> wc, ham |-> hc, extra |-> extra, damped |-> dms]

\* energy0 = ham.compute(); "if not converged: raise NoSCFConvergence"
oda_final_energy(re, conv, dms) ==
    OdaOutcome(IF ~ re.ok THEN re.exc
               ELSE IF conv THEN "return" ELSE "NoSCFConvergence",
               re.wfn, re.ham, re.val.extra, dms)

\* wfn.clear(); wfn.update_exp(fock0, overlap, dm0), ru its outcome
oda_final_exp(ru, hc, extra, conv, dms) ==
    IF ~ ru.ok THEN OdaOutcome(ru.exc, ru.wfn, hc, extra, dms)
    ELSE oda_final_energy(ham_compute(ham_terms, wfn_kind, sys_ops, ru.wfn,
                                      hc, extra), conv, dms)

\* ham.compute_fock(fock0, None), rf its outcome
oda_final_fock(rd, rf, extra, conv, dms) ==
    IF ~ rf.ok THEN OdaOutcome(rf.exc, rf.wfn, rf.ham, extra, dms)
    ELSE oda_final_exp(update_exp_dm(wfn_kind, invalidate(rf.wfn), rf.val, rd.val),
                       rf.ham, extra, conv, dms)

\* dm0.assign(wfn.dm_alpha), rd its outcome
oda_final_dm(rd, hc, extra, conv, dms) ==
    IF ~ rd.ok THEN OdaOutcome(rd.exc, rd.wfn, hc, extra, dms)
    ELSE oda_final_fock(rd, ham_compute_fock(ham_terms, wfn_kind, sys_ops,
                                             rd.wfn, hc, ZeroFocks(wfn_kind)),
                        extra, conv, dms)

\* lines 459-473, after the loop
oda_final(wc, hc, extra, conv, dms) ==
    oda_final_dm(get_dms(wfn_kind, wc), hc, extra, conv, dms)

RECURSIVE oda_loop(_, _, _, _, _, _, _)

\* E) lines 436-457: dm2 to the wavefunction, ham.clear(), the tests
oda_E(p1, dm0, d0, dm2, n, maxiter, threshold, dms) ==
    LET wc == set_dms(wfn_kind, p1.wfn, dm2)
        c == ham_clear(p1.ham, p1.extra)
        close == oda_close(wfn_kind, dm2, dm0, threshold)
    IN  IF close /\ steep_gradient(d0, threshold)
        THEN OdaOutcome("RuntimeError", wc, c.cache, c.extra, Append(dms, dm2))
        ELSE IF close
        THEN oda_final(wc, c.cache, c.extra, TRUE, Append(dms, dm2))
        ELSE oda_loop(wc, c.cache, c.extra, n + 1, maxiter, threshold,
                      Append(dms, dm2))

\* D) lines 418-431: the derivatives and the mixing
oda_D(p0, p1, d0, d1, n, maxiter, threshold, dms) ==
    oda_E(p1, p0.dm, d0,
          damped(wfn_kind, p0.dm, p1.dm,
                 mixing_of(p0.energy, p1.energy, d0, d1)),
          n, maxiter, threshold, dms)

\* C) lines 410-416, p1 the new point
oda_C(p0, p1, n, maxiter, threshold, dms) ==
    IF p1.exc # "" THEN OdaOutcome(p1.exc, p1.wfn, p1.ham, p1.extra, dms)
    ELSE oda_D(p0, p1, energy_deriv(wfn_kind, p0.fock, p0.dm, p1.dm),
               energy_deriv(wfn_kind, p1.fock, p0.dm, p1.dm),
               n, maxiter, threshold, dms)

\* B) lines 404-408, r the outcome of wfn.update_exp(fock0, overlap)
oda_B(p0, r, n, maxiter, threshold, dms) ==
    IF ~ r.ok THEN OdaOutcome(r.exc, r.wfn, p0.ham, p0.extra, dms)
    ELSE oda_C(p0, at_point(r.wfn, ham_clear(p0.ham, p0.extra).cache,
                            ham_clear(p0.ham, p0.extra).extra),
               n, maxiter, threshold, dms)

\* A) lines 392-396, p0 the current point
oda_A(p0, n, maxiter, threshold, dms) ==
    IF p0.exc # "" THEN OdaOutcome(p0.exc, p0.wfn, p0.ham, p0.extra, dms)
    ELSE oda_B(p0, update_exp(wfn_kind, occ_model, invalidate(p0.wfn), p0.fock),
               n, maxiter, threshold, dms)

\* "while maxiter is None or i < maxiter", n the counter i
oda_loop(wc, hc, extra, n, maxiter, threshold, dms) ==
    IF ~ LoopGuard(maxiter, n) THEN oda_final(wc, hc, extra, FALSE, dms)
    ELSE oda_A(at_point(wc, hc, extra), n, maxiter, threshold, dms)

\* a loop whose counter starts at 1
converge_scf_oda_from_one(wc, hc, extra, maxiter, threshold) ==
    IF \E s \in Spins(wfn_kind) :
          Has(wc, "dm_" \o s) /\ ~ check_dm(wc["dm_" \o s])
    THEN OdaOutcome("ValueError", wc, hc, extra, << >>)
    ELSE oda_loop(wc, hc, extra, 1, maxiter, threshold, << >>)

\* converge_scf_oda(ham, maxiter, threshold)
converge_scf_oda(wc, hc, extra, maxiter, threshold) ==
    IF \E s \in Spins(wfn_kind) :
          Has(wc, "dm_" \o s) /\ ~ check_dm(wc["dm_" \o s])
    THEN OdaOutcome("ValueError", wc, hc, extra, << >>)
    ELSE oda_loop(wc, hc, extra, 0, maxiter, threshold, << >>)

\* the iterations given to one of the two short calls
MaxResume == 2

\* the wavefunctions a run starts from: those of the solvers above, and
\* one handed over with an alpha density matrix spread over both functions
ResumeWfns(kind, om, ops) ==
    InitialWfns(kind, om, ops) \cup
    {set_dms(kind, EmptyCache,
             [s \in Channels |-> IF s = "alpha" THEN [a \in Basis |-> Q(1, 2)]
                                                ELSE Vec(1, 0)])}

\* call holds maxiter = k and the threshold of the short calls; hist their
\* outcomes and density matrices dm2; loc a second copy of the same system,
\* on which the one call with maxiter = 2k is made
InitResume ==
    /\ \E w \in Wavefunctions, ops \in Systems :
          /\ wfn_kind = w.kind
          /\ occ_model = w.occ
          /\ sys_ops = ops
          /\ wfn_cache \in ResumeWfns(w.kind, w.occ, ops)
    /\ ham_terms = HartreeFockTerms
    /\ ham_cache = EmptyCache
    /\ sys_extra = EmptyCache
    /\ pc = "idle"
    /\ \E k \in 1..MaxResume, threshold \in Thresholds :
          call = [solver |-> "oda", maxiter |-> k, threshold |-> threshold,
                  outcome |-> ""]
    /\ i = 0
    /\ converged = FALSE
    /\ loc = [called |-> FALSE,
              single |-> OdaOutcome("", wfn_cache, ham_cache, sys_extra, << >>)]
    /\ hist = [outcomes |-> << >>, damped |-> << >>]
    /\ cubic = NoCubic

\* converge_scf_oda(ham, maxiter=k, threshold), on the system
OdaShortCall ==
    /\ Len(hist.outcomes) < 2
    /\ LET r == converge_scf_oda(wfn_cache, ham_cache, sys_extra,
                                 call.maxiter, call.threshold)
       IN  /\ wfn_cache' = r.wfn
           /\ ham_cache' = r.ham
           /\ sys_extra' = r.extra
           /\ hist' = [outcomes |-> Append(hist.outcomes, r.exc),
                       damped |-> hist.damped \o r.damped]
           /\ call' = [call EXCEPT !.outcome = r.exc]
    /\ UNCHANGED <<wfn_kind, occ_model, ham_terms, sys_ops, pc, i, converged,
                   loc, cubic>>

\* converge_scf_oda(ham, maxiter=2k, threshold), on the copy
OdaLongCall ==
    /\ ~ loc.called
    /\ loc' = [called |-> TRUE,
               single |-> converge_scf_oda(loc.single.wfn, loc.single.ham,
                                           loc.single.extra, 2 * call.maxiter,
                                           call.threshold)]
    /\ UNCHANGED <<wfn_kind, occ_model, wfn_cache, ham_terms, ham_cache,
                   sys_extra, sys_ops, pc, call, i, converged, hist, cubic>>

NextResume ==
    \/ OdaShortCall
    \/ OdaLongCall

SpecResume == InitResume /\ [][NextResume]_vars

\* the two short calls were made, both ended with NoSCFConvergence, and the
\* long call was made on the copy
ResumedAndSingle ==
    /\ hist.outcomes = <<"NoSCFConvergence", "NoSCFConvergence">>
    /\ loc.called

\* C25: two consecutive calls with maxiter = k that both raise
\* NoSCFConvergence hand the same density matrices dm2 to the wavefunction,
\* in the same order, as one call with maxiter = 2k from the same start,
\* and leave the same density matrices in the wavefunction
C25_ResumedOdaEqualsSingle ==
    ResumedAndSingle =>
        /\ hist.damped = loc.single.damped
        /\ get_dms(wfn_kind, wfn_cache).val = get_dms(wfn_kind, loc.single.wfn).val
        /\ loc.single.exc = "NoSCFConvergence"

\* some occupation of the density matrices dm is neither 0 nor 1
Fractional(dm) ==
    \E s \in DOMAIN dm : \E a \in Basis : dm[s][a] \notin {QZero, QOne}

\* a resumed run whose first call hands a properly mixed density matrix
\* over to the second, which moves on from it
C25_Witness ==
    /\ ResumedAndSingle
    /\ Len(hist.damped) = 2 * call.maxiter
    /\ Fractional(hist.damped[1])
    /\ hist.damped[1] # hist.damped[2]
=============================================================================
